---- MODULE Spec2Model ----
(***************************************************************************)
(* A model of surgio's utils (src/unnamed/part_000): the node filter, the  *)
(* client serializers, the Clash proxy-group builder, the remote config    *)
(* cache and the subscription decoders.                                    *)
(*                                                                         *)
(* JavaScript values are modelled by strings where a field may be absent:  *)
(* "undefined" stands for an absent field, "true"/"false" for booleans.    *)
(***************************************************************************)
EXTENDS Integers, Sequences, FiniteSets, TLC

VARIABLES nodeList, filter, out, calls, cache

vars == <<nodeList, filter, out, calls, cache>>

----------------------------------------------------------------------------
(* Bounds of the model *)

\* longest node list handed to a serializer or to the group builder
MaxNodes == 2
\* number of decode calls of one generation run
MaxCalls == 2
\* longest subscription payload, in lines
MaxLines == 3

\* longest password and longest node name of a SIP002 node, in characters
MaxChars == 2

\* longest template text handed to a rule filter, in lines
MaxRules == 2

\* number of decode calls of the failure run
MaxDecodes == 3

----------------------------------------------------------------------------
(* Results of a call: a value, or a thrown Error *)

Ok(v) == [status |-> "ok", value |-> v]

Throw(msg) == [status |-> "throw", value |-> msg]

----------------------------------------------------------------------------
(* Filters: NodeNameFilterType | SortedNodeNameFilterType, plus the values *)
(* a JavaScript caller can pass instead.                                   *)
(*   kind      what typeof / === null tells of the value                   *)
(*   accept    (function) the node names the predicate returns true for    *)
(*   hasFilter (object) whether the object exposes a filter operation      *)
(*   keywords  (object) the names the filter operation keeps, in order     *)

NodeNames == {"A", "B"}

MkFilter(kind, accept, hasFilter, keywords) ==
  [kind |-> kind, accept |-> accept, hasFilter |-> hasFilter, keywords |-> keywords]

Undefined == MkFilter("undefined", {}, FALSE, <<>>)

Predicate(accept) == MkFilter("function", accept, FALSE, <<>>)

Composite(keywords) == MkFilter("object", {}, TRUE, keywords)

\* JavaScript truthiness of a filter argument (`filter && ...`)
Truthy(f) == f.kind \notin {"undefined", "null"}

\* ./filter validateFilter: a function, or an object exposing filter
validateFilter(f) ==
  \/ f.kind = "function"
  \/ f.kind = "object" /\ f.hasFilter

\* filter(item) for a predicate
PredicateCall(f, item) == item.nodeName \in f.accept

RECURSIVE KeepWhere(_, _)
\* Array.prototype.filter over node names: the nodes of s named name, in order
KeepWhere(s, name) ==
  IF s = <<>> THEN <<>>
  ELSE IF Head(s).nodeName = name
       THEN <<Head(s)>> \o KeepWhere(Tail(s), name)
       ELSE KeepWhere(Tail(s), name)

RECURSIVE CompositeCall(_, _)
\* filter.filter(nodes) of a composite filter: for each keyword in turn, the
\* nodes it names (a second, order-mutating pass)
CompositeCall(keywords, nodes) ==
  IF keywords = <<>> THEN <<>>
  ELSE KeepWhere(nodes, Head(keywords)) \o CompositeCall(Tail(keywords), nodes)

----------------------------------------------------------------------------
(* applyFilter *)

\* the callback with the enable test lost: the predicate alone decides
ApplyFilterKeepsNoEnable(item, f) ==
  IF Truthy(f) /\ f.kind = "function" THEN PredicateCall(f, item) ELSE TRUE

\* the callback with || for &&: an enabled node passes without the predicate
ApplyFilterKeepsEither(item, f) ==
  LET result == item.enable # "false"
  IN  IF Truthy(f) /\ f.kind = "function"
      THEN PredicateCall(f, item) \/ result
      ELSE result

\* the callback of nodeList.filter in applyFilter
ApplyFilterKeeps(item, f) ==
  LET result == item.enable # "false"
  IN  IF Truthy(f) /\ f.kind = "function"
      THEN PredicateCall(f, item) /\ result
      ELSE result

RECURSIVE ArrayFilter(_, _)
ArrayFilter(s, f) ==
  IF s = <<>> THEN <<>>
  ELSE IF ApplyFilterKeeps(Head(s), f)
       THEN <<Head(s)>> \o ArrayFilter(Tail(s), f)
       ELSE ArrayFilter(Tail(s), f)

applyFilter(list, f) ==
  IF Truthy(f) /\ ~validateFilter(f)
  THEN Throw("invalid filter")
  ELSE LET nodes == ArrayFilter(list, f)
       IN  IF Truthy(f) /\ f.kind = "object" /\ f.hasFilter
           THEN Ok(CompositeCall(f.keywords, nodes))
           ELSE Ok(nodes)

----------------------------------------------------------------------------
(* Nodes: the fields of a NodeConfig that decide which line, if any, a     *)
(* serializer writes for it.  A serializer's output is modelled line by    *)
(* line: kind is the leading token of the line (or the object's type) and  *)
(* name the node it was written for.                                       *)

MkNode(name, type, enable, obfs, binPath, surgeConfig) ==
  [nodeName |-> name, type |-> type, enable |-> enable, obfs |-> obfs,
   binPath |-> binPath, surgeConfig |-> surgeConfig]

Line(kind, name) == [kind |-> kind, name |-> name]

\* `return null` in a map callback
NullLine == Line("null", "")

\* `throw new Error(...)` in a map callback
ThrowLine == Line("throw", "")

\* list.map(callback).filter(item => item !== null), the callback possibly throwing
Collect(lines) ==
  LET NotNull(line) == line.kind # "null"
  IN
  IF \E i \in 1..Len(lines) : lines[i].kind = "throw"
  THEN Throw("Error")
  ELSE Ok(SelectSeq(lines, NotNull))

\* the callback throwing for a Shadowsocks node with a v2ray-plugin obfs
SurgeLineWsThrows(n) ==
  CASE n.type = "shadowsocks" ->
         IF n.obfs \in {"ws", "wss"} THEN ThrowLine
         ELSE IF n.surgeConfig = "ss" THEN Line("ss", n.nodeName)
         ELSE Line("custom", n.nodeName)
    [] n.type = "https" -> Line("https", n.nodeName)
    [] n.type = "snell" -> Line("snell", n.nodeName)
    [] n.type = "shadowsocksr" ->
         IF n.binPath \in {"undefined", ""} THEN ThrowLine
         ELSE Line("external", n.nodeName)
    [] n.type = "vmess" ->
         IF n.surgeConfig = "native" THEN Line("vmess", n.nodeName)
         ELSE IF n.binPath \in {"undefined", ""} THEN ThrowLine
         ELSE Line("external", n.nodeName)
    [] OTHER -> NullLine

\* the callback dropping a node whose binPath is missing
SurgeLineNoBinPathDropped(n) ==
  CASE n.type = "shadowsocks" ->
         IF n.obfs \in {"ws", "wss"} THEN NullLine
         ELSE IF n.surgeConfig = "ss" THEN Line("ss", n.nodeName)
         ELSE Line("custom", n.nodeName)
    [] n.type = "https" -> Line("https", n.nodeName)
    [] n.type = "snell" -> Line("snell", n.nodeName)
    [] n.type = "shadowsocksr" ->
         IF n.binPath \in {"undefined", ""} THEN NullLine
         ELSE Line("external", n.nodeName)
    [] n.type = "vmess" ->
         IF n.surgeConfig = "native" THEN Line("vmess", n.nodeName)
         ELSE IF n.binPath \in {"undefined", ""} THEN NullLine
         ELSE Line("external", n.nodeName)
    [] OTHER -> NullLine

\* the map callback of getSurgeNodes: the line written for a node
SurgeLine(n) ==
  CASE n.type = "shadowsocks" ->
         IF n.obfs \in {"ws", "wss"} THEN NullLine
         ELSE IF n.surgeConfig = "ss" THEN Line("ss", n.nodeName)
         ELSE Line("custom", n.nodeName)
    [] n.type = "https" -> Line("https", n.nodeName)
    [] n.type = "snell" -> Line("snell", n.nodeName)
    [] n.type = "shadowsocksr" ->
         IF n.binPath \in {"undefined", ""} THEN ThrowLine
         ELSE Line("external", n.nodeName)
    [] n.type = "vmess" ->
         IF n.surgeConfig = "native" THEN Line("vmess", n.nodeName)
         ELSE IF n.binPath \in {"undefined", ""} THEN ThrowLine
         ELSE Line("external", n.nodeName)
    [] OTHER -> NullLine

\* applyFilter(list, filter).map(callback).filter(...)
getSurgeNodes(list, f) ==
  LET r == applyFilter(list, f)
  IN  IF r.status = "throw" THEN r
      ELSE Collect([i \in 1..Len(r.value) |-> SurgeLine(r.value[i])])

ClashLine(n) ==
  IF n.enable = "false" THEN NullLine
  ELSE CASE n.type = "shadowsocks" -> Line("ss", n.nodeName)
         [] n.type = "vmess" -> Line("vmess", n.nodeName)
         [] n.type = "shadowsocksr" -> Line("ssr", n.nodeName)
         [] n.type = "snell" -> Line("snell", n.nodeName)
         [] OTHER -> NullLine

\* applyFilter(list, filter).map(callback).filter(...)
getClashNodes(list, f) ==
  LET r == applyFilter(list, f)
  IN  IF r.status = "throw" THEN r
      ELSE Collect([i \in 1..Len(r.value) |-> ClashLine(r.value[i])])

MellowLine(n) ==
  IF n.type = "vmess" THEN Line("vmess1", n.nodeName) ELSE NullLine

\* applyFilter(list, filter).map(callback).filter(...)
getMellowNodes(list, f) ==
  LET r == applyFilter(list, f)
  IN  IF r.status = "throw" THEN r
      ELSE Collect([i \in 1..Len(r.value) |-> MellowLine(r.value[i])])

ShadowsocksUriLine(n) ==
  IF n.enable = "false" THEN NullLine
  ELSE IF n.type = "shadowsocks" THEN Line("ss://", n.nodeName)
  ELSE NullLine

\* no applyFilter here: the enable test is in the map callback
getShadowsocksNodes(list) ==
  Collect([i \in 1..Len(list) |-> ShadowsocksUriLine(list[i])])

ShadowsocksrUriLine(n) ==
  IF n.enable = "false" THEN NullLine
  ELSE IF n.type = "shadowsocksr" THEN Line("ssr://", n.nodeName)
  ELSE NullLine

getShadowsocksrNodes(list) ==
  Collect([i \in 1..Len(list) |-> ShadowsocksrUriLine(list[i])])

V2rayNLine(n) ==
  IF n.enable = "false" THEN NullLine
  ELSE IF n.type = "vmess" THEN Line("vmess://", n.nodeName)
  ELSE NullLine

getV2rayNNodes(list) ==
  Collect([i \in 1..Len(list) |-> V2rayNLine(list[i])])

\* getShadowsocksNodes([nodeConfig]) as one line of the Quantumult output:
\* the empty string it returns for a dropped node is falsy, hence dropped
SingleLine(r) ==
  IF r.status = "ok" /\ r.value # <<>> THEN r.value[1] ELSE NullLine

QuantumultLine(n) ==
  CASE n.type = "vmess" -> Line("vmess://", n.nodeName)
    [] n.type = "shadowsocks" -> SingleLine(getShadowsocksNodes(<<n>>))
    [] n.type = "shadowsocksr" -> SingleLine(getShadowsocksrNodes(<<n>>))
    [] n.type = "https" -> Line("http://", n.nodeName)
    [] OTHER -> NullLine

\* applyFilter(list, filter).map(callback).filter(...)
getQuantumultNodes(list, f) ==
  LET r == applyFilter(list, f)
  IN  IF r.status = "throw" THEN r
      ELSE Collect([i \in 1..Len(r.value) |-> QuantumultLine(r.value[i])])

QuantumultXLine(n) ==
  CASE n.type = "vmess" -> Line("vmess=", n.nodeName)
    [] n.type = "shadowsocks" -> Line("shadowsocks=", n.nodeName)
    [] n.type = "shadowsocksr" -> Line("shadowsocks=", n.nodeName)
    [] n.type = "https" -> Line("http=", n.nodeName)
    [] OTHER -> NullLine

\* applyFilter(list, filter).map(callback).filter(...)
getQuantumultXNodes(list, f) ==
  LET r == applyFilter(list, f)
  IN  IF r.status = "throw" THEN r
      ELSE Collect([i \in 1..Len(r.value) |-> QuantumultXLine(r.value[i])])

ShadowsocksJSONLine(n) ==
  IF n.enable = "false" THEN NullLine
  ELSE IF n.type = "shadowsocks" THEN Line("json", n.nodeName)
  ELSE NullLine

getShadowsocksNodesJSON(list) ==
  Collect([i \in 1..Len(list) |-> ShadowsocksJSONLine(list[i])])

----------------------------------------------------------------------------
(* The serializer run: one call of applyFilter or of a serializer on a     *)
(* node list and a filter argument.  out holds the call and what it gave.  *)

Enables == {"undefined", "true", "false"}

ListsOf(pool, max) == UNION { [1..k -> pool] : k \in 0..max }

Filters ==
  LET InvalidObject == MkFilter("object", {}, FALSE, <<>>)
  IN
  \* a non-empty string and an object with no filter operation: neither is a filter
  LET InvalidString == MkFilter("string", {}, FALSE, <<>>)
  IN
  LET Null == MkFilter("null", {}, FALSE, <<>>)
  IN
  { Undefined, Null, InvalidString, InvalidObject,
    Predicate({}), Predicate({"A"}), Predicate({"A", "B"}),
    Composite(<<"A">>), Composite(<<"B", "A">>) }

NoCall == [op |-> "none", res |-> Ok(<<>>)]

InitSerialize ==
  LET SerializerNodes ==
        \* (type, obfs, binPath) of the nodes handed to the serializers
        LET NodeShapes ==
              { <<"shadowsocks", "undefined", "undefined">>,
                <<"shadowsocksr", "undefined", "/usr/local/bin/ssr-local">>,
                <<"shadowsocksr", "undefined", "undefined">>,
                <<"vmess", "undefined", "/usr/local/bin/v2ray">>,
                <<"https", "undefined", "undefined">> }
        IN
        { MkNode(name, sh[1], en, sh[2], sh[3], "undefined") :
            name \in NodeNames, en \in Enables, sh \in NodeShapes }
  IN
  /\ nodeList \in ListsOf(SerializerNodes, MaxNodes)
  /\ filter \in Filters
  /\ out = NoCall
  /\ calls = <<>>
  /\ cache = <<>>

CallApplyFilter ==
  /\ out = NoCall
  /\ out' = [op |-> "applyFilter", res |-> applyFilter(nodeList, filter)]
  /\ UNCHANGED <<nodeList, filter, calls, cache>>

CallGetSurgeNodes ==
  /\ out = NoCall
  /\ out' = [op |-> "getSurgeNodes", res |-> getSurgeNodes(nodeList, filter)]
  /\ UNCHANGED <<nodeList, filter, calls, cache>>

CallGetClashNodes ==
  /\ out = NoCall
  /\ out' = [op |-> "getClashNodes", res |-> getClashNodes(nodeList, filter)]
  /\ UNCHANGED <<nodeList, filter, calls, cache>>

CallGetMellowNodes ==
  /\ out = NoCall
  /\ out' = [op |-> "getMellowNodes", res |-> getMellowNodes(nodeList, filter)]
  /\ UNCHANGED <<nodeList, filter, calls, cache>>

CallGetQuantumultNodes ==
  /\ out = NoCall
  /\ out' = [op |-> "getQuantumultNodes", res |-> getQuantumultNodes(nodeList, filter)]
  /\ UNCHANGED <<nodeList, filter, calls, cache>>

CallGetQuantumultXNodes ==
  /\ out = NoCall
  /\ out' = [op |-> "getQuantumultXNodes", res |-> getQuantumultXNodes(nodeList, filter)]
  /\ UNCHANGED <<nodeList, filter, calls, cache>>

CallGetShadowsocksNodes ==
  /\ out = NoCall
  /\ out' = [op |-> "getShadowsocksNodes", res |-> getShadowsocksNodes(nodeList)]
  /\ UNCHANGED <<nodeList, filter, calls, cache>>

CallGetShadowsocksrNodes ==
  /\ out = NoCall
  /\ out' = [op |-> "getShadowsocksrNodes", res |-> getShadowsocksrNodes(nodeList)]
  /\ UNCHANGED <<nodeList, filter, calls, cache>>

CallGetV2rayNNodes ==
  /\ out = NoCall
  /\ out' = [op |-> "getV2rayNNodes", res |-> getV2rayNNodes(nodeList)]
  /\ UNCHANGED <<nodeList, filter, calls, cache>>

CallGetShadowsocksNodesJSON ==
  /\ out = NoCall
  /\ out' = [op |-> "getShadowsocksNodesJSON", res |-> getShadowsocksNodesJSON(nodeList)]
  /\ UNCHANGED <<nodeList, filter, calls, cache>>

NextSerialize ==
  \/ CallApplyFilter
  \/ CallGetSurgeNodes
  \/ CallGetClashNodes
  \/ CallGetMellowNodes
  \/ CallGetQuantumultNodes
  \/ CallGetQuantumultXNodes
  \/ CallGetShadowsocksNodes
  \/ CallGetShadowsocksrNodes
  \/ CallGetV2rayNNodes
  \/ CallGetShadowsocksNodesJSON

SpecSerialize == InitSerialize /\ [][NextSerialize]_vars

InitVariant ==
  LET VariantFilters == { Undefined, Predicate({"A"}) }
  IN
  LET VariantNodes ==
        \* the variant run: the same calls on lists of nodes of every variant a
        \* serializer tells apart: (type, obfs, binPath, surgeConfig)
        LET VariantShapes ==
              { <<"shadowsocks", "undefined", "undefined", "undefined">>,
                <<"shadowsocks", "http", "undefined", "ss">>,
                <<"shadowsocks", "ws", "undefined", "undefined">>,
                <<"shadowsocks", "wss", "undefined", "ss">>,
                <<"shadowsocksr", "plain", "/usr/local/bin/ssr-local", "undefined">>,
                <<"shadowsocksr", "plain", "undefined", "undefined">>,
                <<"shadowsocksr", "plain", "", "undefined">>,
                <<"vmess", "undefined", "undefined", "native">>,
                <<"vmess", "undefined", "/usr/local/bin/v2ray", "undefined">>,
                <<"vmess", "undefined", "undefined", "undefined">>,
                <<"https", "undefined", "undefined", "undefined">>,
                <<"snell", "undefined", "undefined", "undefined">>,
                <<"trojan", "undefined", "undefined", "undefined">> }
        IN
        { MkNode(name, sh[1], en, sh[2], sh[3], sh[4]) :
            name \in NodeNames, en \in {"undefined", "false"}, sh \in VariantShapes }
  IN
  /\ nodeList \in ListsOf(VariantNodes, MaxNodes)
  /\ filter \in VariantFilters
  /\ out = NoCall
  /\ calls = <<>>
  /\ cache = <<>>

SpecVariant == InitVariant /\ [][NextSerialize]_vars

----------------------------------------------------------------------------
(* generateClashProxyGroup and normalizeClashProxyGroupConfig              *)
(*   an optional array is [defined, list]; an options argument that is     *)
(*   left out has given = FALSE and takes the parameter's default          *)

\* ./constant PROXY_TEST_URL and PROXY_TEST_INTERVAL
PROXY_TEST_URL == "PROXY_TEST_URL"

PROXY_TEST_INTERVAL == "PROXY_TEST_INTERVAL"

NoArray == [defined |-> FALSE, list |-> <<>>]

Array(list) == [defined |-> TRUE, list |-> list]

MkOptions(given, f, existingProxies, proxyTestUrl, proxyTestInterval) ==
  [given |-> given, filter |-> f, existingProxies |-> existingProxies,
   proxyTestUrl |-> proxyTestUrl, proxyTestInterval |-> proxyTestInterval]

\* the call without its fourth argument
OmittedOptions == MkOptions(FALSE, Undefined, NoArray, "undefined", "undefined")

NamesOf(nodes) == [i \in 1..Len(nodes) |-> nodes[i].nodeName]

\* the three branches with the middle one lost: the candidates always join
ResolveProxiesAlwaysConcat(list, options) ==
  LET r == applyFilter(list, options.filter)
  IN  IF r.status = "throw" THEN r
      ELSE Ok(options.existingProxies.list \o NamesOf(r.value))

\* the member list of a group: `let proxies; if (options.existingProxies) ...`
ResolveProxies(list, options) ==
  IF options.existingProxies.defined
  THEN IF Truthy(options.filter)
       THEN LET r == applyFilter(list, options.filter)
            IN  IF r.status = "throw" THEN r
                ELSE Ok(options.existingProxies.list \o NamesOf(r.value))
       ELSE Ok(options.existingProxies.list)
  ELSE LET r == applyFilter(list, options.filter)
       IN  IF r.status = "throw" THEN r
           ELSE Ok(NamesOf(r.value))

HealthCheckTypes == {"url-test", "fallback", "load-balance"}

RuleTypes == {"select"} \cup HealthCheckTypes

generateClashProxyGroup(ruleName, ruleType, list, optionsArg) ==
  \* the default value of the options parameter
  LET DefaultOptions ==
        MkOptions(TRUE, Undefined, NoArray, PROXY_TEST_URL, PROXY_TEST_INTERVAL)
  IN
  LET options == IF optionsArg.given THEN optionsArg ELSE DefaultOptions
      proxies == ResolveProxies(list, options)
      group   == [type |-> ruleType, name |-> ruleName, proxies |-> proxies.value]
  IN  IF proxies.status = "throw" THEN proxies
      ELSE IF ruleType \in HealthCheckTypes
           THEN Ok([url |-> options.proxyTestUrl,
                    interval |-> options.proxyTestInterval] @@ group)
           ELSE Ok(group)

\* one entry of what proxyGroupModifier returns
MkItem(name, type, hasFilter, f, proxies) ==
  [name |-> name, type |-> type, hasFilter |-> hasFilter, filter |-> f,
   proxies |-> proxies]

\* proxyGroup is what proxyGroupModifier(nodeList, customFilters) returned; the
\* options parameter defaults to {}
normalizeClashProxyGroupConfig(list, proxyGroup, optionsArg) ==
  \* the callback of proxyGroup.map in normalizeClashProxyGroupConfig
  LET NormalizeItem(list_, item, options) ==
        IF item.hasFilter
        THEN IF ~Truthy(item.filter) \/ ~validateFilter(item.filter)
             THEN Throw("invalid filter")
             ELSE generateClashProxyGroup(item.name, item.type, list_,
                    MkOptions(TRUE, item.filter, item.proxies,
                              options.proxyTestUrl, options.proxyTestInterval))
        ELSE generateClashProxyGroup(item.name, item.type, list_,
               MkOptions(TRUE, Undefined, item.proxies,
                         options.proxyTestUrl, options.proxyTestInterval))
  IN
  LET options == IF optionsArg.given THEN optionsArg
                 ELSE MkOptions(TRUE, Undefined, NoArray, "undefined", "undefined")
      groups  == [i \in 1..Len(proxyGroup) |->
                    NormalizeItem(list, proxyGroup[i], options)]
  IN  IF \E i \in 1..Len(groups) : groups[i].status = "throw"
      THEN Throw("invalid filter")
      ELSE Ok([i \in 1..Len(groups) |-> groups[i].value])

----------------------------------------------------------------------------
(* The group run: one call of the group builder on a node list *)

ExistingProxies == { NoArray, Array(<<>>), Array(<<"DIRECT", "A">>) }

\* a group with members of its own comes first
FirstItem == MkItem("Direct", "select", FALSE, Undefined, Array(<<"DIRECT">>))

InitGroup ==
  LET GroupNodes ==
        { MkNode(name, "shadowsocks", en, "undefined", "undefined", "undefined") :
            name \in NodeNames, en \in Enables }
  IN
  /\ nodeList \in ListsOf(GroupNodes, MaxNodes)
  /\ filter \in Filters
  /\ out = NoCall
  /\ calls = <<>>
  /\ cache = <<>>

CallGenerateClashProxyGroup ==
  \* the options a caller passes: none, some without the health-check
  \* settings, some with them
  LET OptionsArgs(f) ==
        {OmittedOptions}
          \cup { MkOptions(TRUE, f, e, "undefined", "undefined") : e \in ExistingProxies }
          \cup { MkOptions(TRUE, f, e, "http://example.com/generate_204", "600") :
                   e \in ExistingProxies }
  IN
  /\ out = NoCall
  /\ \E ruleType \in RuleTypes, optionsArg \in OptionsArgs(filter) :
       out' = [op |-> "generateClashProxyGroup",
               ruleType |-> ruleType,
               options |-> optionsArg,
               res |-> generateClashProxyGroup("G", ruleType, nodeList, optionsArg)]
  /\ UNCHANGED <<nodeList, filter, calls, cache>>

CallNormalizeClashProxyGroupConfig ==
  \* what normalizeClashProxyGroupConfig is called with: no options, or the
  \* health-check settings
  LET NormalizeOptionsArgs ==
        { OmittedOptions,
          MkOptions(TRUE, Undefined, NoArray, "http://example.com/generate_204", "600") }
  IN
  /\ out = NoCall
  /\ \E ruleType \in RuleTypes, hasFilter \in BOOLEAN, e \in ExistingProxies,
        optionsArg \in NormalizeOptionsArgs :
       LET item == MkItem("G", ruleType, hasFilter,
                          IF hasFilter THEN filter ELSE Undefined, e)
       IN  out' = [op |-> "normalizeClashProxyGroupConfig",
                   proxyGroup |-> <<FirstItem, item>>,
                   options |-> optionsArg,
                   res |-> normalizeClashProxyGroupConfig(
                             nodeList, <<FirstItem, item>>, optionsArg)]
  /\ UNCHANGED <<nodeList, filter, calls, cache>>

NextGroup ==
  \/ CallGenerateClashProxyGroup
  \/ CallNormalizeClashProxyGroupConfig

SpecGroup == InitGroup /\ [][NextGroup]_vars

----------------------------------------------------------------------------
(* Subscription payloads.  A response body is text: either the base64 of   *)
(* lines joined by "\n", or a JSON document.  A line is held by what the   *)
(* decoders read of it: its scheme prefix and, for a vmess line, whether   *)
(* its base64 payload is JSON and the v, net and ps fields of that JSON.   *)

MkLine(scheme, json, v, net, ps) ==
  [scheme |-> scheme, json |-> json, v |-> v, net |-> net, ps |-> ps]

Base64Body(lines) == [format |-> "base64", lines |-> lines]

NoBody == Base64Body(<<>>)

\* fromBase64(response).split('\n'): a JSON document read as base64 is
\* bytes with no scheme prefix in them
SplitLines(body) == IF body.format = "base64" THEN body.lines ELSE <<>>

IsVmessLine(line) == line.scheme = "vmess://"

----------------------------------------------------------------------------
(* getV2rayNSubscription: the decoding of a fetched or cached response *)

VmessNode(line) ==
  [nodeName |-> line.ps, type |-> "vmess", method |-> "auto", network |-> line.net]

Item(kind, node) == [kind |-> kind, node |-> node]

NullItem == Item("null", VmessNode(MkLine("vmess://", "ok", "2", "tcp", "")))

ThrowItem == Item("throw", VmessNode(MkLine("vmess://", "ok", "2", "tcp", "")))

\* the callback without the version test
V2rayNItemAnyVersion(line) ==
  IF line.json # "ok" THEN ThrowItem
  ELSE IF line.net \in {"kcp", "http"} THEN NullItem
  ELSE Item("node", VmessNode(line))

\* the callback keeping the nodes of every network
V2rayNItemAnyNetwork(line) ==
  IF line.json # "ok" THEN ThrowItem
  ELSE IF line.v # "2" THEN ThrowItem
  ELSE Item("node", VmessNode(line))

\* the callback throwing for a network it does not support
V2rayNItemStrictNetwork(line) ==
  IF line.json # "ok" THEN ThrowItem
  ELSE IF line.v # "2" THEN ThrowItem
  ELSE IF line.net \in {"kcp", "http"} THEN ThrowItem
  ELSE Item("node", VmessNode(line))

\* the callback of configList.map: JSON.parse throws on a payload that is
\* not JSON; `!json.v || Number(json.v) !== 2` throws; kcp and http give null
V2rayNItem(line) ==
  IF line.json # "ok" THEN ThrowItem
  ELSE IF line.v # "2" THEN ThrowItem
  ELSE IF line.net \in {"kcp", "http"} THEN NullItem
  ELSE Item("node", VmessNode(line))

DecodeV2rayN(body) ==
  \* configList.map(callback).filter(item => !!item)
  LET CollectNodes(items) ==
        LET IsNodeItem(item) == item.kind = "node"
        IN
        IF \E i \in 1..Len(items) : items[i].kind = "throw"
        THEN Throw("ParseError")
        ELSE LET kept == SelectSeq(items, IsNodeItem)
             IN  Ok([i \in 1..Len(kept) |-> kept[i].node])
  IN
  LET configList == SelectSeq(SplitLines(body), IsVmessLine)
  IN  CollectNodes([i \in 1..Len(configList) |-> V2rayNItem(configList[i])])

----------------------------------------------------------------------------
(* The other decoders, as far as the line filter and the node names *)

\* the udpRelay argument of a decoder is a boolean or left out

\* the node without the override of the call
SsNodeNoOverride(line, udpRelay) ==
  [nodeName |-> line.ps, type |-> "shadowsocks", udpRelay |-> "undefined"]

\* `typeof udpRelay === 'boolean' ? {'udp-relay': udpRelay} : null`
SsNode(line, udpRelay) ==
  [nodeName |-> line.ps, type |-> "shadowsocks",
   udpRelay |-> IF udpRelay \in {"true", "false"} THEN udpRelay ELSE "undefined"]

DecodeShadowsocks(body, udpRelay) ==
  LET IsSsLine(line) == line.scheme = "ss://"
  IN
  LET configList == SelectSeq(SplitLines(body), IsSsLine)
  IN  Ok([i \in 1..Len(configList) |-> SsNode(configList[i], udpRelay)])

DecodeShadowsocksr(body, udpRelay) ==
  \* parseSSRUri(str), then `if (udpRelay !== void 0) nodeConfig['udp-relay'] = udpRelay`
  LET SsrNode(line) ==
        [nodeName |-> line.ps, type |-> "shadowsocksr", udpRelay |-> udpRelay]
  IN
  LET IsSsrLine(line) == line.scheme = "ssr://"
  IN
  LET configList == SelectSeq(SplitLines(body), IsSsrLine)
  IN  Ok([i \in 1..Len(configList) |-> SsrNode(configList[i])])

\* JSON.parse(body) throws unless the body is JSON
DecodeShadowsocksJSON(body, udpRelay) ==
  IF body.format # "json" THEN Throw("ParseError")
  ELSE Ok([i \in 1..Len(body.lines) |-> SsNode(body.lines[i], udpRelay)])

\* what a decoder makes of a response; getV2rayNSubscription has no udpRelay
Parse(decoder, body, udpRelay) ==
  CASE decoder = "getShadowsocksSubscription" -> DecodeShadowsocks(body, udpRelay)
    [] decoder = "getShadowsocksrSubscription" -> DecodeShadowsocksr(body, udpRelay)
    [] decoder = "getV2rayNSubscription" -> DecodeV2rayN(body)
    [] decoder = "getShadowsocksJSONConfig" -> DecodeShadowsocksJSON(body, udpRelay)

----------------------------------------------------------------------------
(* ConfigCache: an LRU with one maxAge; an entry is gone once it is stale *)

Keys == {"https://example.com/sub1", "https://example.com/sub2"}

Absent == [present |-> FALSE, body |-> NoBody]

EmptyCache == [k \in Keys |-> Absent]

\* ConfigCache.has(key) answering no
CacheHasNever(cch, key) == FALSE

\* ConfigCache.has(key)
CacheHas(cch, key) == cch[key].present

\* ConfigCache.get(key)
CacheGet(cch, key) == cch[key].body

\* the fetched body not stored
CacheSetDropped(cch, key, body) == cch

\* ConfigCache.set(key, body)
CacheSet(cch, key, body) == [cch EXCEPT ![key] = [present |-> TRUE, body |-> body]]

----------------------------------------------------------------------------
(* Decode calls.  A call is an async function: it runs to its await of     *)
(* got.get (pc "fetching"), the fetch settles, the inner function stores   *)
(* and returns the body (pc "fetched"), and the outer function resumes to  *)
(* decode it (pc "done").  On a cache hit it runs from start to end with   *)
(* no await.  fetched tells whether the call has called got.get.           *)

IdleCall ==
  [pc |-> "idle", decoder |-> "none", key |-> "none", udpRelay |-> "undefined",
   fetched |-> FALSE, response |-> NoBody, result |-> Ok(<<>>)]

\* decoder(url, udpRelay): up to the await, or to the end on a cache hit
Decode(c, decoder, key, udpRelay) ==
  /\ calls[c].pc = "idle"
  \* calls are numbered in the order they are made
  /\ c > 1 => calls[c - 1].pc # "idle"
  /\ IF CacheHas(cache, key)
     THEN calls' = [calls EXCEPT ![c] =
            [pc |-> "done", decoder |-> decoder, key |-> key, udpRelay |-> udpRelay,
             fetched |-> FALSE, response |-> CacheGet(cache, key),
             result |-> Parse(decoder, CacheGet(cache, key), udpRelay)]]
     ELSE calls' = [calls EXCEPT ![c] =
            [pc |-> "fetching", decoder |-> decoder, key |-> key, udpRelay |-> udpRelay,
             fetched |-> TRUE, response |-> NoBody, result |-> Ok(<<>>)]]
  /\ UNCHANGED <<nodeList, filter, out, cache>>

\* the body stored only once it has decoded
FetchOkStoredIfDecoded(c, body) ==
  /\ calls[c].pc = "fetching"
  /\ cache' = IF Parse(calls[c].decoder, body, calls[c].udpRelay).status = "ok"
              THEN CacheSet(cache, calls[c].key, body)
              ELSE cache
  /\ calls' = [calls EXCEPT ![c].pc = "fetched", ![c].response = body]
  /\ UNCHANGED <<nodeList, filter, out>>

\* got.get resolves with body: ConfigCache.set(url, res.body); return res.body
FetchOk(c, body) ==
  /\ calls[c].pc = "fetching"
  /\ cache' = CacheSet(cache, calls[c].key, body)
  /\ calls' = [calls EXCEPT ![c].pc = "fetched", ![c].response = body]
  /\ UNCHANGED <<nodeList, filter, out>>

\* the failure stored under the key as an empty body
FetchFailStored(c) ==
  /\ calls[c].pc = "fetching"
  /\ cache' = CacheSet(cache, calls[c].key, NoBody)
  /\ calls' = [calls EXCEPT ![c].pc = "done", ![c].result = Throw("FetchError")]
  /\ UNCHANGED <<nodeList, filter, out>>

\* got.get rejects: the error propagates to the caller
FetchFail(c) ==
  /\ calls[c].pc = "fetching"
  /\ calls' = [calls EXCEPT ![c].pc = "done", ![c].result = Throw("FetchError")]
  /\ UNCHANGED <<nodeList, filter, out, cache>>

\* the outer function resumes with the body and decodes it
Resume(c) ==
  /\ calls[c].pc = "fetched"
  /\ calls' = [calls EXCEPT ![c].pc = "done",
                            ![c].result = Parse(calls[c].decoder, calls[c].response,
                                                calls[c].udpRelay)]
  /\ UNCHANGED <<nodeList, filter, out, cache>>

\* maxAge passes for the entry of key
Expire(key) ==
  /\ CacheHas(cache, key)
  /\ cache' = [cache EXCEPT ![key] = Absent]
  /\ UNCHANGED <<nodeList, filter, out, calls>>

----------------------------------------------------------------------------
(* The cache run: MaxCalls decode calls of any decoder on two keys, the    *)
(* network answering with any of three bodies, entries expiring            *)

InitCache ==
  /\ nodeList = <<>>
  /\ filter = Undefined
  /\ out = NoCall
  /\ calls = [c \in 1..MaxCalls |-> IdleCall]
  /\ cache = EmptyCache

NextRun ==
  LET CacheBodies ==
        LET GoodLine(ps) == MkLine("vmess://", "ok", "2", "ws", ps)
        IN
        \* a JSON document {configs: [...]}: lines holds its configs
        LET JsonBody(configs) == [format |-> "json", lines |-> configs]
        IN
        { Base64Body(<<GoodLine("A")>>),
          Base64Body(<<MkLine("ss://", "ok", "2", "ws", "B")>>),
          JsonBody(<<MkLine("json", "ok", "2", "ws", "A")>>) }
  IN
  LET Decoders ==
        { "getShadowsocksSubscription", "getShadowsocksrSubscription",
          "getV2rayNSubscription", "getShadowsocksJSONConfig" }
  IN
  \/ \E c \in 1..MaxCalls, decoder \in Decoders, key \in Keys :
       Decode(c, decoder, key, "undefined")
  \/ \E c \in 1..MaxCalls, body \in CacheBodies : FetchOk(c, body)
  \/ \E c \in 1..MaxCalls : FetchFail(c)
  \/ \E c \in 1..MaxCalls : Resume(c)

NextCache ==
  \/ NextRun
  \/ \E key \in Keys : Expire(key)

\* decode calls over the life of the cache
SpecCache == InitCache /\ [][NextCache]_vars

\* one generation run: no entry expires
SpecRun == InitCache /\ [][NextRun]_vars

----------------------------------------------------------------------------
(* The failure run: MaxDecodes decode calls within one maxAge, the network *)
(* failing or answering with a body that one decoder or another cannot     *)
(* decode                                                                  *)

InitFailure ==
  /\ nodeList = <<>>
  /\ filter = Undefined
  /\ out = NoCall
  /\ calls = [c \in 1..MaxDecodes |-> IdleCall]
  /\ cache = EmptyCache

NextFailure ==
  LET FailureBodies ==
        \* a V2RayN payload of version 1 and a JSON document
        { Base64Body(<<MkLine("vmess://", "ok", "1", "ws", "A")>>),
          [format |-> "json", lines |-> <<MkLine("json", "ok", "2", "ws", "A")>>] }
      FailureDecoders ==
        \* the decoders that throw on a body they cannot decode
        { "getV2rayNSubscription", "getShadowsocksJSONConfig" }
  IN
  \/ \E c \in 1..MaxDecodes, decoder \in FailureDecoders, key \in Keys :
       Decode(c, decoder, key, "undefined")
  \/ \E c \in 1..MaxDecodes :
       /\ calls[c].pc = "fetching"
       /\ \E body \in FailureBodies : FetchOk(c, body)
  \/ \E c \in 1..MaxDecodes : FetchFail(c)
  \/ \E c \in 1..MaxDecodes : Resume(c)

SpecFailure == InitFailure /\ [][NextFailure]_vars

----------------------------------------------------------------------------
(* The override run: MaxCalls decode calls of the decoders that take a     *)
(* udpRelay argument, each call with its own argument or none              *)

NextOverride ==
  LET OverrideBodies ==
        { Base64Body(<<MkLine("ss://", "ok", "undefined", "undefined", "A"),
                       MkLine("ss://", "ok", "undefined", "undefined", "B")>>),
          [format |-> "json", lines |-> <<MkLine("json", "ok", "2", "ws", "A")>>] }
      OverrideDecoders == {"getShadowsocksSubscription", "getShadowsocksJSONConfig"}
  IN
  \/ \E c \in 1..MaxCalls, decoder \in OverrideDecoders, key \in Keys,
          udpRelay \in {"undefined", "true", "false"} :
       Decode(c, decoder, key, udpRelay)
  \/ \E c \in 1..MaxCalls :
       /\ calls[c].pc = "fetching"
       /\ \E body \in OverrideBodies : FetchOk(c, body)
  \/ \E c \in 1..MaxCalls : FetchFail(c)
  \/ \E c \in 1..MaxCalls : Resume(c)

SpecOverride == InitCache /\ [][NextOverride]_vars

----------------------------------------------------------------------------
(* The decode run: getV2rayNSubscription called for two sources, one call  *)
(* each, the first answered with any payload of up to MaxLines lines, its  *)
(* sibling with any payload of up to one line                              *)

Payloads(max) ==
  LET PayloadLines ==
        { MkLine("vmess://", "ok", "2", "ws", "A"),
          MkLine("vmess://", "ok", "2", "tcp", "B"),
          MkLine("vmess://", "ok", "2", "kcp", "A"),
          MkLine("vmess://", "ok", "2", "http", "B"),
          MkLine("vmess://", "ok", "1", "ws", "A"),
          MkLine("vmess://", "ok", "1", "kcp", "B"),
          MkLine("vmess://", "ok", "undefined", "ws", "B"),
          MkLine("vmess://", "bad", "undefined", "undefined", ""),
          MkLine("ss://", "ok", "undefined", "undefined", "A") }
  IN
                 { Base64Body(lines) : lines \in ListsOf(PayloadLines, max) }

Sources == <<"https://example.com/sub1", "https://example.com/sub2">>

InitDecode ==
  /\ nodeList = <<>>
  /\ filter = Undefined
  /\ out = NoCall
  /\ calls = [c \in 1..Len(Sources) |-> IdleCall]
  /\ cache = EmptyCache

NextDecode ==
  \/ \E c \in 1..Len(Sources) : Decode(c, "getV2rayNSubscription", Sources[c], "undefined")
  \/ /\ calls[1].pc = "fetching"
     /\ \E body \in Payloads(MaxLines) : FetchOk(1, body)
  \/ /\ calls[2].pc = "fetching"
     /\ \E body \in Payloads(1) : FetchOk(2, body)
  \/ \E c \in 1..Len(Sources) : FetchFail(c)
  \/ \E c \in 1..Len(Sources) : Resume(c)

SpecDecode == InitDecode /\ [][NextDecode]_vars

----------------------------------------------------------------------------
(* SIP002 URIs.  A text is a sequence of pieces: a piece is a character    *)
(* that the encoder or the URL parser looks at ("@", ":", "/", "?", "#",   *)
(* "%", ...) or a run of characters none of them looks into (a method, a   *)
(* host).  Base64 is written piece by piece, each piece by its own code.   *)

RECURSIVE Flatten(_)
Flatten(texts) ==
  IF texts = <<>> THEN <<>> ELSE Head(texts) \o Flatten(Tail(texts))

\* the pieces of `${method}:${password}` and their base64 codes
Base64Code ==
  [piece \in {"aes-256-gcm", "rc4-md5", "p", "w", ":"} |->
     CASE piece = "aes-256-gcm" -> "YWVzLTI1Ni1nY20"
       [] piece = "rc4-md5" -> "cmM0LW1kNQ"
       [] piece = "p" -> "cA"
       [] piece = "w" -> "dw"
       [] piece = ":" -> "Og"]

\* URLSafeBase64.encode(Buffer.from(str, 'utf8'))
toUrlSafeBase64(str) == [i \in 1..Len(str) |-> Base64Code[str[i]]]

\* URLSafeBase64.decode(str).toString()
fromUrlSafeBase64(str) ==
  [i \in 1..Len(str) |->
     CHOOSE piece \in DOMAIN Base64Code : Base64Code[piece] = str[i]]

encodeURIComponent(str) ==
  \* encodeURIComponent on the characters of a node name
  LET EncodeChar(ch) ==
        CASE ch = "#" -> <<"%", "2", "3">>
          [] ch = "%" -> <<"%", "2", "5">>
          [] OTHER -> <<ch>>
  IN
                           Flatten([i \in 1..Len(str) |-> EncodeChar(str[i])])

RECURSIVE decodeURIComponent(_)
decodeURIComponent(str) ==
  IF str = <<>> THEN <<>>
  ELSE IF Head(str) = "%" /\ Len(str) >= 3
       THEN (IF <<str[2], str[3]>> = <<"2", "3">> THEN <<"#">> ELSE <<"%">>)
            \o decodeURIComponent(SubSeq(str, 4, Len(str)))
       ELSE <<Head(str)>> \o decodeURIComponent(Tail(str))

\* str.split(sep)
RECURSIVE Split(_, _)
Split(str, sep) ==
  IF \A i \in 1..Len(str) : str[i] # sep THEN <<str>>
  ELSE LET at == CHOOSE i \in 1..Len(str) :
                   str[i] = sep /\ \A j \in 1..(i - 1) : str[j] # sep
       IN  <<SubSeq(str, 1, at - 1)>> \o Split(SubSeq(str, at + 1, Len(str)), sep)

\* the first position of str holding one of seps, Len(str) + 1 if none
FirstOf(str, seps) ==
  IF \A i \in 1..Len(str) : str[i] \notin seps THEN Len(str) + 1
  ELSE CHOOSE i \in 1..Len(str) :
         str[i] \in seps /\ \A j \in 1..(i - 1) : str[j] \notin seps

\* the last position of str holding sep, 0 if none
LastOf(str, sep) ==
  IF \A i \in 1..Len(str) : str[i] # sep THEN 0
  ELSE CHOOSE i \in 1..Len(str) :
         str[i] = sep /\ \A j \in (i + 1)..Len(str) : str[j] # sep

\* a Shadowsocks node: the fields the URI carries.  A port is a number or
\* a string in a NodeConfig; portType tells which, port is its digits
MkSsNode(name, hostname, port, portType, method, password, obfs) ==
  [nodeName |-> name, hostname |-> hostname, port |-> port,
   portType |-> portType, method |-> method, password |-> password,
   obfs |-> obfs]

\* the case NodeTypeEnum.Shadowsocks of getShadowsocksNodes: the URI
ShadowsocksUri(config, groupName) ==
  \* the query of the URI: plugin (when the node has an obfs) and group
  LET SsQuery(config_, groupName_) ==
        (IF config_.obfs # "undefined"
         THEN <<"plugin", "=", "obfs-local", "%", "3", "B", "obfs", "%", "3", "D",
                config_.obfs, "&">>
         ELSE <<>>)
        \o <<"group", "=", groupName_>>
  IN
  Flatten(<< <<"ss://">>,
             toUrlSafeBase64(config.method \o <<":">> \o config.password),
             <<"@">>, config.hostname, <<":">>, config.port, <<"/", "?">>,
             SsQuery(config, groupName),
             <<"#">>, encodeURIComponent(config.nodeName) >>)

\* the map callback of getShadowsocksSubscription: the node of a URI
ParseShadowsocksUri(item) ==
  \* legacyUrl.parse(item, true): auth, hostname, port and hash of the URI
  LET UrlParse(item_) ==
        LET rest == Tail(item_)
            authority == SubSeq(rest, 1, FirstOf(rest, {"/", "?", "#"}) - 1)
            at == LastOf(authority, "@")
            hostport == SubSeq(authority, at + 1, Len(authority))
            colon == LastOf(hostport, ":")
        IN  [auth |-> SubSeq(authority, 1, at - 1),
             hostname |-> IF colon = 0 THEN hostport ELSE SubSeq(hostport, 1, colon - 1),
             port |-> IF colon = 0 THEN <<>> ELSE SubSeq(hostport, colon + 1, Len(hostport)),
             hash |-> SubSeq(rest, FirstOf(rest, {"#"}), Len(rest))]
  IN
  LET scheme == UrlParse(item)
      userInfo == Split(fromUrlSafeBase64(scheme.auth), ":")
  IN  MkSsNode(decodeURIComponent(Tail(scheme.hash)),
               scheme.hostname, scheme.port, "string",
               userInfo[1],
               IF Len(userInfo) >= 2 THEN userInfo[2] ELSE <<"undefined">>,
               "undefined")

----------------------------------------------------------------------------
(* The round trip: a Shadowsocks node is encoded by getShadowsocksNodes,   *)
(* the URI decoded by getShadowsocksSubscription, and the decoded node is  *)
(* encoded and decoded once more.  calls keeps the nodes and URIs so far.  *)

TextsOf(chars, max) == UNION { [1..k -> chars] : k \in 1..max }

Step(op, node, text) == [op |-> op, node |-> node, text |-> text]

InitRoundTrip ==
  LET SsNodes ==
        { MkSsNode(name, <<hostname>>, <<port[1]>>, port[2], <<method>>, password, obfs) :
            name \in TextsOf({"T", "#", "%"}, MaxChars),
            hostname \in {"1.2.3.4", "example.com"},
            port \in {<<"8388", "number">>, <<"443", "string">>},
            method \in {"aes-256-gcm", "rc4-md5"},
            password \in TextsOf({"p", "w", ":"}, MaxChars),
            obfs \in {"undefined", "http"} }
  IN
  /\ nodeList \in { <<n>> : n \in SsNodes }
  /\ filter = Undefined
  /\ out = Step("none", nodeList[1], <<>>)
  /\ calls = <<out>>
  /\ cache = EmptyCache

\* getShadowsocksNodes([node]) on the given node or on the decoded one
CallEncodeShadowsocks ==
  /\ out.op \in {"none", "getShadowsocksSubscription"}
  /\ Len(calls) < 5
  /\ out' = Step("getShadowsocksNodes", out.node, ShadowsocksUri(out.node, "Surgio"))
  /\ calls' = Append(calls, out')
  /\ UNCHANGED <<nodeList, filter, cache>>

\* getShadowsocksSubscription on a response holding the URI
CallDecodeShadowsocks ==
  /\ out.op = "getShadowsocksNodes"
  /\ out' = Step("getShadowsocksSubscription", ParseShadowsocksUri(out.text), out.text)
  /\ calls' = Append(calls, out')
  /\ UNCHANGED <<nodeList, filter, cache>>

NextRoundTrip ==
  \/ CallEncodeShadowsocks
  \/ CallDecodeShadowsocks

SpecRoundTrip == InitRoundTrip /\ [][NextRoundTrip]_vars

----------------------------------------------------------------------------
(* What a serializer writes for one node, field by field.  The line or     *)
(* object written for a node is the sequence of its entries, key and       *)
(* value; a key of a nested object is written with its path                *)
(* ("plugin-opts.tls"); a positional value of a line is given the key it   *)
(* stands for ("type", "method").  A flag of a node is "true", "false" or  *)
(* "undefined"; fields the entries do not depend on (hostname, port,       *)
(* password, uuid) are left out.                                           *)

MkConfig(type, name, method, obfs, network, tls, flags, surgeConfig, binPath) ==
  [type |-> type, nodeName |-> name, method |-> method, obfs |-> obfs,
   network |-> network, tls |-> tls,
   udpRelay |-> flags[1], udp |-> flags[2], tfo |-> flags[3],
   mptcp |-> flags[4], tls13 |-> flags[5], skipCertVerify |-> flags[6],
   surgeConfig |-> surgeConfig, binPath |-> binPath]

Entry(key, value) == [key |-> key, value |-> value]

\* ...(typeof v === 'boolean' ? [`key=${v}`] : [])
IfBoolean(key, v) == IF v \in {"true", "false"} THEN <<Entry(key, v)>> ELSE <<>>

\* ...(v ? [`key=${v}`] : [])
IfTruthy(key, v) == IF v = "true" THEN <<Entry(key, v)>> ELSE <<>>

\* obj[key]; a field the model leaves out (password, psk, ...) is present
Field(obj, key) ==
  CASE key = "udp-relay" -> obj.udpRelay
    [] key = "tfo" -> obj.tfo
    [] key = "obfs" -> obj.obfs
    [] key = "obfs-host" -> IF obj.obfs = "undefined" THEN "undefined" ELSE "host"
    [] key = "method" -> obj.method
    [] OTHER -> "given"

\* pickAndFormatStringList: `${key}=${obj[key]}` for the keys obj has
pickAndFormatStringList(obj, keyList) ==
  LET IsOwn(key) == Field(obj, key) # "undefined"
      own == SelectSeq(keyList, IsOwn)
  IN  [i \in 1..Len(own) |-> Entry(own[i], Field(obj, own[i]))]

\* `return null` for a node
Dropped == [status |-> "null", value |-> <<>>]

\* the map callback of getSurgeNodes
SurgeFields(n) ==
  CASE n.type = "shadowsocks" ->
         IF n.obfs \in {"ws", "wss"} THEN Dropped
         ELSE IF n.surgeConfig = "ss"
         THEN Ok(<<Entry("type", "ss"), Entry("encrypt-method", n.method)>>
                 \o pickAndFormatStringList(n,
                      <<"password", "udp-relay", "obfs", "obfs-host", "tfo">>)
                 \o IfBoolean("mptcp", n.mptcp))
         ELSE Ok(<<Entry("type", "custom"), Entry("method", n.method)>>
                 \o pickAndFormatStringList(n,
                      <<"udp-relay", "obfs", "obfs-host", "tfo">>)
                 \o IfBoolean("mptcp", n.mptcp))
    [] n.type = "https" ->
         Ok(<<Entry("type", "https")>>
            \o IfBoolean("tls13", n.tls13)
            \o IfBoolean("skip-cert-verify", n.skipCertVerify)
            \o IfBoolean("tfo", n.tfo)
            \o IfBoolean("mptcp", n.mptcp))
    [] n.type = "snell" ->
         Ok(<<Entry("type", "snell")>>
            \o pickAndFormatStringList(n, <<"psk", "obfs">>)
            \o IfBoolean("tfo", n.tfo)
            \o IfBoolean("mptcp", n.mptcp))
    [] n.type = "shadowsocksr" ->
         IF n.binPath \in {"undefined", ""} THEN Throw("Error")
         ELSE Ok(<<Entry("type", "external"), Entry("exec", n.binPath)>>)
    [] n.type = "vmess" ->
         IF n.surgeConfig = "native"
         THEN Ok(<<Entry("type", "vmess")>>
                 \o (IF n.network = "ws" THEN <<Entry("ws", "true")>> ELSE <<>>)
                 \o (IF n.tls = "true"
                     THEN <<Entry("tls", "true")>>
                          \o IfBoolean("tls13", n.tls13)
                          \o IfBoolean("skip-cert-verify", n.skipCertVerify)
                     ELSE <<>>)
                 \o IfBoolean("udp-relay", n.udpRelay)
                 \o IfBoolean("tfo", n.tfo)
                 \o IfBoolean("mptcp", n.mptcp))
         ELSE IF n.binPath \in {"undefined", ""} THEN Throw("Error")
         ELSE Ok(<<Entry("type", "external"), Entry("exec", n.binPath)>>)
    [] OTHER -> Dropped

\* the callback writing tls: true for every v2ray-plugin node
ClashFieldsTlsAlways(n) ==
  CASE n.type = "shadowsocks" ->
         Ok(<<Entry("type", "ss"), Entry("cipher", n.method),
              Entry("udp", IF n.udpRelay = "true" THEN n.udpRelay ELSE "false")>>
            \o (IF n.obfs \in {"tls", "http"}
                THEN <<Entry("plugin", "obfs"), Entry("plugin-opts.mode", n.obfs)>>
                ELSE <<>>)
            \o (IF n.obfs \in {"ws", "wss"}
                THEN <<Entry("plugin", "v2ray-plugin"),
                       Entry("plugin-opts.mode", "websocket"),
                       Entry("plugin-opts.tls",
                             "true")>>
                     \o (IF n.obfs = "wss"
                         THEN IfBoolean("plugin-opts.skip-cert-verify", n.skipCertVerify)
                         ELSE <<>>)
                     \o <<Entry("plugin-opts.mux", "false")>>
                ELSE <<>>))
    [] n.type = "vmess" ->
         Ok(<<Entry("type", "vmess"), Entry("cipher", n.method)>>
            \o IfBoolean("udp", n.udp)
            \o (IF n.network = "tcp" THEN <<>> ELSE <<Entry("network", n.network)>>)
            \o <<Entry("tls", n.tls)>>
            \o (IF n.tls = "true"
                THEN IfBoolean("skip-cert-verify", n.skipCertVerify)
                ELSE <<>>))
    [] n.type = "shadowsocksr" ->
         Ok(<<Entry("type", "ssr")>>
            \o IfBoolean("udp", n.udpRelay)
            \o <<Entry("obfs", n.obfs), Entry("cipher", n.method)>>)
    [] n.type = "snell" ->
         Ok(<<Entry("type", "snell"), Entry("obfs-opts.mode", n.obfs)>>)
    [] OTHER -> Dropped

\* the map callback of getClashNodes
ClashFields(n) ==
  CASE n.type = "shadowsocks" ->
         Ok(<<Entry("type", "ss"), Entry("cipher", n.method),
              Entry("udp", IF n.udpRelay = "true" THEN n.udpRelay ELSE "false")>>
            \o (IF n.obfs \in {"tls", "http"}
                THEN <<Entry("plugin", "obfs"), Entry("plugin-opts.mode", n.obfs)>>
                ELSE <<>>)
            \o (IF n.obfs \in {"ws", "wss"}
                THEN <<Entry("plugin", "v2ray-plugin"),
                       Entry("plugin-opts.mode", "websocket"),
                       Entry("plugin-opts.tls",
                             IF n.obfs = "wss" THEN "true" ELSE "false")>>
                     \o (IF n.obfs = "wss"
                         THEN IfBoolean("plugin-opts.skip-cert-verify", n.skipCertVerify)
                         ELSE <<>>)
                     \o <<Entry("plugin-opts.mux", "false")>>
                ELSE <<>>))
    [] n.type = "vmess" ->
         Ok(<<Entry("type", "vmess"), Entry("cipher", n.method)>>
            \o IfBoolean("udp", n.udp)
            \o (IF n.network = "tcp" THEN <<>> ELSE <<Entry("network", n.network)>>)
            \o <<Entry("tls", n.tls)>>
            \o (IF n.tls = "true"
                THEN IfBoolean("skip-cert-verify", n.skipCertVerify)
                ELSE <<>>))
    [] n.type = "shadowsocksr" ->
         Ok(<<Entry("type", "ssr")>>
            \o IfBoolean("udp", n.udpRelay)
            \o <<Entry("obfs", n.obfs), Entry("cipher", n.method)>>)
    [] n.type = "snell" ->
         Ok(<<Entry("type", "snell"), Entry("obfs-opts.mode", n.obfs)>>)
    [] OTHER -> Dropped

\* the callback writing the method as the node gives it
QuantumultFieldsMethodAsGiven(n) ==
  CASE n.type = "vmess" ->
         Ok(<<Entry("type", "vmess"),
              Entry("method", n.method),
              Entry("over-tls", IF n.tls = "true" THEN "true" ELSE "false"),
              Entry("certificate", "1"),
              Entry("obfs", n.network)>>)
    [] n.type = "shadowsocks" ->
         Ok(<<Entry("type", "ss://"), Entry("method", n.method)>>
            \o (IF n.obfs # "undefined"
                THEN <<Entry("plugin", "obfs-local"), Entry("obfs", n.obfs)>>
                ELSE <<>>))
    [] n.type = "shadowsocksr" ->
         Ok(<<Entry("type", "ssr://"), Entry("method", n.method),
              Entry("obfs", n.obfs), Entry("udpport", "0"), Entry("uot", "0")>>)
    [] n.type = "https" ->
         Ok(<<Entry("type", "http"), Entry("over-tls", "true"),
              Entry("certificate", "1")>>)
    [] OTHER -> Dropped

\* the map callback of getQuantumultNodes: the text that is then wrapped in
\* base64 (for Shadowsocks and ShadowsocksR, what the URI carries)
QuantumultFields(n) ==
  CASE n.type = "vmess" ->
         Ok(<<Entry("type", "vmess"),
              Entry("method", IF n.method = "auto"
                              THEN "chacha20-ietf-poly1305" ELSE n.method),
              Entry("over-tls", IF n.tls = "true" THEN "true" ELSE "false"),
              Entry("certificate", "1"),
              Entry("obfs", n.network)>>)
    [] n.type = "shadowsocks" ->
         Ok(<<Entry("type", "ss://"), Entry("method", n.method)>>
            \o (IF n.obfs # "undefined"
                THEN <<Entry("plugin", "obfs-local"), Entry("obfs", n.obfs)>>
                ELSE <<>>))
    [] n.type = "shadowsocksr" ->
         Ok(<<Entry("type", "ssr://"), Entry("method", n.method),
              Entry("obfs", n.obfs), Entry("udpport", "0"), Entry("uot", "0")>>)
    [] n.type = "https" ->
         Ok(<<Entry("type", "http"), Entry("over-tls", "true"),
              Entry("certificate", "1")>>)
    [] OTHER -> Dropped

\* the callback writing udp-relay for VMess only when the node gives it
QuantumultXFieldsNoDefault(n) ==
  CASE n.type = "vmess" ->
         Ok(<<Entry("type", "vmess"),
              Entry("method", IF n.method = "auto"
                              THEN "chacha20-ietf-poly1305" ELSE n.method)>>
            \o IfBoolean("udp-relay", n.udp)
            \o IfTruthy("fast-open", n.tfo)
            \o (CASE n.network = "ws" ->
                       <<Entry("obfs", IF n.tls = "true" THEN "wss" ELSE "ws")>>
                  [] n.network = "tcp" ->
                       IF n.tls = "true" THEN <<Entry("obfs", "over-tls")>> ELSE <<>>
                  [] OTHER -> <<>>))
    [] n.type = "shadowsocks" ->
         Ok(<<Entry("type", "shadowsocks")>>
            \o pickAndFormatStringList(n, <<"method", "password">>)
            \o (IF n.obfs \in {"http", "tls", "ws", "wss"}
                THEN <<Entry("obfs", n.obfs)>> ELSE <<>>)
            \o IfTruthy("udp-relay", n.udpRelay)
            \o IfTruthy("fast-open", n.tfo))
    [] n.type = "shadowsocksr" ->
         Ok(<<Entry("type", "shadowsocks")>>
            \o pickAndFormatStringList(n, <<"method", "password">>)
            \o <<Entry("obfs", n.obfs)>>
            \o IfTruthy("udp-relay", n.udpRelay)
            \o IfTruthy("fast-open", n.tfo))
    [] n.type = "https" ->
         Ok(<<Entry("type", "http")>>
            \o pickAndFormatStringList(n, <<"username", "password">>)
            \o <<Entry("over-tls", "true")>>
            \o IfTruthy("fast-open", n.tfo))
    [] OTHER -> Dropped

\* the callback writing the udp value of a VMess node when it has one
QuantumultXFieldsUdpAsGiven(n) ==
  CASE n.type = "vmess" ->
         Ok(<<Entry("type", "vmess"),
              Entry("method", IF n.method = "auto"
                              THEN "chacha20-ietf-poly1305" ELSE n.method),
              Entry("udp-relay", IF n.udp \in {"true", "false"} THEN n.udp ELSE "true")>>
            \o IfTruthy("fast-open", n.tfo)
            \o (CASE n.network = "ws" ->
                       <<Entry("obfs", IF n.tls = "true" THEN "wss" ELSE "ws")>>
                  [] n.network = "tcp" ->
                       IF n.tls = "true" THEN <<Entry("obfs", "over-tls")>> ELSE <<>>
                  [] OTHER -> <<>>))
    [] n.type = "shadowsocks" ->
         Ok(<<Entry("type", "shadowsocks")>>
            \o pickAndFormatStringList(n, <<"method", "password">>)
            \o (IF n.obfs \in {"http", "tls", "ws", "wss"}
                THEN <<Entry("obfs", n.obfs)>> ELSE <<>>)
            \o IfTruthy("udp-relay", n.udpRelay)
            \o IfTruthy("fast-open", n.tfo))
    [] n.type = "shadowsocksr" ->
         Ok(<<Entry("type", "shadowsocks")>>
            \o pickAndFormatStringList(n, <<"method", "password">>)
            \o <<Entry("obfs", n.obfs)>>
            \o IfTruthy("udp-relay", n.udpRelay)
            \o IfTruthy("fast-open", n.tfo))
    [] n.type = "https" ->
         Ok(<<Entry("type", "http")>>
            \o pickAndFormatStringList(n, <<"username", "password">>)
            \o <<Entry("over-tls", "true")>>
            \o IfTruthy("fast-open", n.tfo))
    [] OTHER -> Dropped

\* the map callback of getQuantumultXNodes
QuantumultXFields(n) ==
  CASE n.type = "vmess" ->
         Ok(<<Entry("type", "vmess"),
              Entry("method", IF n.method = "auto"
                              THEN "chacha20-ietf-poly1305" ELSE n.method),
              \* `udp-relay=${nodeConfig.udp || true}`
              Entry("udp-relay", IF n.udp = "true" THEN n.udp ELSE "true")>>
            \o IfTruthy("fast-open", n.tfo)
            \o (CASE n.network = "ws" ->
                       <<Entry("obfs", IF n.tls = "true" THEN "wss" ELSE "ws")>>
                  [] n.network = "tcp" ->
                       IF n.tls = "true" THEN <<Entry("obfs", "over-tls")>> ELSE <<>>
                  [] OTHER -> <<>>))
    [] n.type = "shadowsocks" ->
         Ok(<<Entry("type", "shadowsocks")>>
            \o pickAndFormatStringList(n, <<"method", "password">>)
            \o (IF n.obfs \in {"http", "tls", "ws", "wss"}
                THEN <<Entry("obfs", n.obfs)>> ELSE <<>>)
            \o IfTruthy("udp-relay", n.udpRelay)
            \o IfTruthy("fast-open", n.tfo))
    [] n.type = "shadowsocksr" ->
         Ok(<<Entry("type", "shadowsocks")>>
            \o pickAndFormatStringList(n, <<"method", "password">>)
            \o <<Entry("obfs", n.obfs)>>
            \o IfTruthy("udp-relay", n.udpRelay)
            \o IfTruthy("fast-open", n.tfo))
    [] n.type = "https" ->
         Ok(<<Entry("type", "http")>>
            \o pickAndFormatStringList(n, <<"username", "password">>)
            \o <<Entry("over-tls", "true")>>
            \o IfTruthy("fast-open", n.tfo))
    [] OTHER -> Dropped

----------------------------------------------------------------------------
(* The field run: one node of any type, with any values of its optional    *)
(* flags, is serialized for one client                                     *)

Flags == {"undefined", "true", "false"}

InitFields ==
  LET FieldConfigs ==
        LET SnellConfigs ==
              { MkConfig("snell", "A", "undefined", obfs, "undefined", "undefined",
                         <<"undefined", "undefined", tfo, mptcp, "undefined", "undefined">>,
                         "undefined", "undefined") :
                  obfs \in {"undefined", "http"}, tfo \in Flags, mptcp \in Flags }
        IN
        LET HttpsConfigs ==
              { MkConfig("https", "A", "undefined", "undefined", "undefined", "undefined",
                         <<"undefined", "undefined", tfo, mptcp, tls13, skipCertVerify>>,
                         "undefined", "undefined") :
                  tfo \in Flags, mptcp \in Flags, tls13 \in Flags, skipCertVerify \in Flags }
        IN
        LET ShadowsocksrConfigs ==
              { MkConfig("shadowsocksr", "A", "chacha20", "plain", "undefined", "undefined",
                         <<udpRelay, "undefined", tfo, "undefined", "undefined", "undefined">>,
                         "undefined", "/usr/local/bin/ssr-local") :
                  udpRelay \in Flags, tfo \in Flags }
        IN
        LET VmessConfigs ==
              { MkConfig("vmess", "A", method, "undefined", network, tls, flags,
                         surgeConfig, "/usr/local/bin/v2ray") :
                  method \in {"auto", "aes-128-gcm"}, network \in {"ws", "tcp"},
                  tls \in {"true", "false"}, flags \in [1..6 -> Flags],
                  surgeConfig \in {"undefined", "native"} }
        IN
        LET ShadowsocksConfigs ==
              { MkConfig("shadowsocks", "A", "aes-128-gcm", obfs, "undefined", "undefined",
                         <<udpRelay, "undefined", tfo, mptcp, "undefined", skipCertVerify>>,
                         surgeConfig, "undefined") :
                  obfs \in {"undefined", "http", "tls", "ws", "wss"},
                  udpRelay \in Flags, tfo \in Flags, mptcp \in Flags, skipCertVerify \in Flags,
                  surgeConfig \in {"undefined", "ss"} }
        IN
        ShadowsocksConfigs \cup VmessConfigs \cup ShadowsocksrConfigs
          \cup HttpsConfigs \cup SnellConfigs
  IN
  /\ nodeList \in { <<n>> : n \in FieldConfigs }
  /\ filter = Undefined
  /\ out = NoCall
  /\ calls = <<>>
  /\ cache = EmptyCache

SerializeSurge ==
  /\ out = NoCall
  /\ out' = [op |-> "getSurgeNodes", res |-> SurgeFields(nodeList[1])]
  /\ UNCHANGED <<nodeList, filter, calls, cache>>

SerializeClash ==
  /\ out = NoCall
  /\ out' = [op |-> "getClashNodes", res |-> ClashFields(nodeList[1])]
  /\ UNCHANGED <<nodeList, filter, calls, cache>>

SerializeQuantumult ==
  /\ out = NoCall
  /\ out' = [op |-> "getQuantumultNodes", res |-> QuantumultFields(nodeList[1])]
  /\ UNCHANGED <<nodeList, filter, calls, cache>>

SerializeQuantumultX ==
  /\ out = NoCall
  /\ out' = [op |-> "getQuantumultXNodes", res |-> QuantumultXFields(nodeList[1])]
  /\ UNCHANGED <<nodeList, filter, calls, cache>>

NextFields ==
  \/ SerializeSurge
  \/ SerializeClash
  \/ SerializeQuantumult
  \/ SerializeQuantumultX

SpecFields == InitFields /\ [][NextFields]_vars

----------------------------------------------------------------------------
(* The template filters (src/lib/template.ts).  A line is a sequence of    *)
(* pieces, as a SIP002 URI is: the characters and words the filters look   *)
(* at (" ", "#", "//", ",no-resolve", "=", ",", a rule type) and runs of   *)
(* text they do not look into.  A text is the sequence of its lines,       *)
(* str.split('\n'): the empty text is one empty line.                      *)

\* ./utils/constant: rule types a target does not take, or does take
CLASH_UNSUPPORTED_RULE == {"USER-AGENT", "PROCESS-NAME"}

MELLOW_UNSUPPORTED_RULE == {"USER-AGENT", "URL-REGEX"}

\* item.toUpperCase(), piece by piece
UpperPiece(piece) ==
  CASE piece = "user-agent" -> "USER-AGENT"
    [] piece = "url-regex" -> "URL-REGEX"
    [] piece = ",example.com" -> ",EXAMPLE.COM"
    [] piece = ",Proxy" -> ",PROXY"
    [] piece = ",no-resolve" -> ",NO-RESOLVE"
    [] piece = "note" -> "NOTE"
    [] OTHER -> piece

startsWith(str, prefix) == str # <<>> /\ Head(str) = prefix

RECURSIVE trimStart(_)
trimStart(str) ==
  IF str # <<>> /\ Head(str) = " " THEN trimStart(Tail(str)) ELSE str

RECURSIVE trimEnd(_)
trimEnd(str) ==
  IF str # <<>> /\ str[Len(str)] = " "
  THEN trimEnd(SubSeq(str, 1, Len(str) - 1)) ELSE str

trim(str) == trimEnd(trimStart(str))

\* str.replace(/,no-resolve/, ''): the first match only
RemoveFirst(str, piece) ==
  LET at == FirstOf(str, {piece})
  IN  SubSeq(str, 1, at - 1) \o SubSeq(str, at + 1, Len(str))

\* str.replace(/\/\/.*$/, '')
RemoveComment(str) == SubSeq(str, 1, FirstOf(str, {"//"}) - 1)

\* array.join('\n'), read as a sequence of lines again
Join(array) == IF array = <<>> THEN << <<>> >> ELSE array

\* (!!item && item.trim() !== '') ? item.toUpperCase() : ''
TestString(item) ==
  LET toUpperCase(str) == [i \in 1..Len(str) |-> UpperPiece(str[i])]
  IN
  IF item # <<>> /\ trim(item) # <<>> THEN toUpperCase(item) ELSE <<>>

clashFilter(str) ==
  LET ClashMap(item) ==
        IF startsWith(item, "#") \/ trim(item) = <<>> THEN item
        ELSE trim(RemoveComment(RemoveFirst(<<"- ">> \o item, ",no-resolve")))
  IN
  LET ClashKeeps(item) ==
        \A rule \in CLASH_UNSUPPORTED_RULE : ~startsWith(TestString(item), rule)
  IN
  LET kept == SelectSeq(str, ClashKeeps)
  IN  Join([i \in 1..Len(kept) |-> ClashMap(kept[i])])

\* str.trim() === '' for the whole text
IsBlankText(str) == \A i \in 1..Len(str) : trim(str[i]) = <<>>

mellowFilter(str) ==
  \* the map callback tests the text str, not the line item, for blankness
  LET MellowMap(item, str_) ==
        IF startsWith(item, "#") \/ IsBlankText(str_) THEN item
        ELSE trim(RemoveComment(RemoveFirst(item, ",no-resolve")))
  IN
  LET MellowKeeps(item) ==
        \A rule \in MELLOW_UNSUPPORTED_RULE : ~startsWith(TestString(item), rule)
  IN
  LET kept == SelectSeq(str, MellowKeeps)
  IN  Join([i \in 1..Len(kept) |-> MellowMap(kept[i], str)])

\* a URL: origin, path and the name-value pairs of its query
MkUrl(origin, pathname, search) ==
  [origin |-> origin, pathname |-> pathname, search |-> search]

\* searchParams.set(name, value): the first pair of that name takes the
\* value and the others of that name go; with none, the pair is appended
SearchParamsSet(search, name, value) ==
  LET IsName(pair) == pair[1] = name
      IsOther(pair) == pair[1] # name
      at == CHOOSE i \in 1..(Len(search) + 1) :
              /\ i <= Len(search) => IsName(search[i])
              /\ \A j \in 1..(i - 1) : IsOther(search[j])
  IN  SubSeq(search, 1, at - 1) \o << <<name, value>> >>
        \o SelectSeq(SubSeq(search, at + 1, Len(search)), IsOther)

\* decodeStringList(list)[key]: `${pair[0]}` = key, value pair[1] || true;
\* a later item of the same key overwrites an earlier one
DecodedValue(list, key) ==
  LET IsKey(item) == Split(item, "=")[1] = key
      items == SelectSeq(list, IsKey)
  IN  IF items = <<>> THEN <<"undefined">>
      ELSE LET pair == Split(items[Len(items)], "=")
           IN  IF Len(pair) >= 2 /\ pair[2] # <<>> THEN pair[2] ELSE <<"true">>

Rewrite(pattern, url) == [empty |-> FALSE, pattern |-> pattern, url |-> url]

EmptyString ==
  LET NoUrl == MkUrl("", "", <<>>)
  IN
               [empty |-> TRUE, pattern |-> <<>>, url |-> NoUrl]

\* the rewrite for a rule whose type comes after its pattern
convertPatternFirst(str, publicUrl) ==
  LET parts == Split(str, " ")
  IN  IF Len(parts) >= 2 /\ parts[2] = <<"http-response">>
      THEN Rewrite(parts[1],
             MkUrl(publicUrl.origin, "/qx-script",
                   SearchParamsSet(publicUrl.search, "url",
                     DecodedValue(Split(Flatten(SubSeq(parts, 3, Len(parts))), ","),
                                  <<"script-path">>))))
      ELSE EmptyString

\* convertSurgeScriptRuleToQuantumultXRewriteRule; the result is
\* `${parts[1]} url script-response-body ${apiEndpoint}` or ''
convertSurgeScriptRuleToQuantumultXRewriteRule(str, publicUrl) ==
  LET parts == Split(str, " ")
  IN  IF parts[1] = <<"http-response">>
      THEN Rewrite(IF Len(parts) >= 2 THEN parts[2] ELSE <<>>,
             MkUrl(publicUrl.origin, "/qx-script",
                   SearchParamsSet(publicUrl.search, "url",
                     DecodedValue(Split(Flatten(SubSeq(parts, 3, Len(parts))), ","),
                                  <<"script-path">>))))
      ELSE EmptyString

----------------------------------------------------------------------------
(* The template run: a text of up to MaxRules lines goes through one of    *)
(* the filters; cache holds the engine's publicUrl                         *)

InitTemplate ==
  LET PublicUrls ==
        { MkUrl("https://example.com", "/", <<>>),
          MkUrl("https://example.com", "/surgio",
                << <<"url", <<"old">> >>, <<"token", <<"t">> >> >>) }
  IN
  LET Texts ==
        LET ScriptLines ==
              { <<"http-response", " ", "^a", " ", "script-path", "=", "a.js">>,
                <<"http-response", " ", "^a", " ", "requires-body", "=", "1", ",", " ",
                  "script-path", "=", "a.js">>,
                <<"http-response", " ", "^a", " ", "script-path", "=", "a.js?v", "=", "1">>,
                <<"http-response", " ", "^a", " ", "requires-body", "=", "1">>,
                <<"^a", " ", "http-response", " ", "script-path", "=", "a.js">>,
                <<"http-request", " ", "^a", " ", "script-path", "=", "a.js">> }
        IN
        LET RuleLines ==
              { <<>>,
                <<" ">>,
                <<"#", " ", "note">>,
                <<"DOMAIN", ",example.com", ",Proxy">>,
                <<" ", "DOMAIN", ",example.com", ",Proxy", " ">>,
                <<"IP-CIDR", ",Proxy", ",no-resolve">>,
                <<"IP-CIDR", ",Proxy", ",no-resolve", " ", "//", " ", "note">>,
                <<"IP-CIDR", ",Proxy", ",no-resolve", ",no-resolve">>,
                <<"USER-AGENT", ",Proxy">>,
                <<"user-agent", ",Proxy">>,
                <<"PROCESS-NAME", ",Proxy">>,
                <<"url-regex", ",Proxy">> }
        IN
               UNION { [1..k -> RuleLines \cup ScriptLines] : k \in 1..MaxRules }
  IN
  /\ nodeList \in Texts
  /\ filter = Undefined
  /\ out = NoCall
  /\ calls = <<>>
  /\ cache \in PublicUrls

CallClashFilter ==
  /\ out = NoCall
  /\ out' = [op |-> "clash", res |-> Ok(clashFilter(nodeList))]
  /\ UNCHANGED <<nodeList, filter, calls, cache>>

CallMellowFilter ==
  /\ out = NoCall
  /\ out' = [op |-> "mellow", res |-> Ok(mellowFilter(nodeList))]
  /\ UNCHANGED <<nodeList, filter, calls, cache>>

\* the conversion of the first line of the text
CallConvert ==
  /\ out = NoCall
  /\ out' = [op |-> "convertSurgeScriptRuleToQuantumultXRewriteRule",
             res |-> Ok(convertSurgeScriptRuleToQuantumultXRewriteRule(
                          nodeList[1], cache))]
  /\ UNCHANGED <<nodeList, filter, calls, cache>>

NextTemplate ==
  \/ CallClashFilter
  \/ CallMellowFilter
  \/ CallConvert

SpecTemplate == InitTemplate /\ [][NextTemplate]_vars

----------------------------------------------------------------------------
(* Claims about applyFilter and the serializers (SpecSerialize) *)

SerializerOps ==
  { "getSurgeNodes", "getClashNodes", "getMellowNodes", "getQuantumultNodes",
    "getQuantumultXNodes", "getShadowsocksNodes", "getShadowsocksrNodes",
    "getV2rayNNodes", "getShadowsocksNodesJSON" }

\* what operation op gives on a node list and a filter argument
Run(op, list, f) ==
  CASE op = "applyFilter" -> applyFilter(list, f)
    [] op = "getSurgeNodes" -> getSurgeNodes(list, f)
    [] op = "getClashNodes" -> getClashNodes(list, f)
    [] op = "getMellowNodes" -> getMellowNodes(list, f)
    [] op = "getQuantumultNodes" -> getQuantumultNodes(list, f)
    [] op = "getQuantumultXNodes" -> getQuantumultXNodes(list, f)
    [] op = "getShadowsocksNodes" -> getShadowsocksNodes(list)
    [] op = "getShadowsocksrNodes" -> getShadowsocksrNodes(list)
    [] op = "getV2rayNNodes" -> getV2rayNNodes(list)
    [] op = "getShadowsocksNodesJSON" -> getShadowsocksNodesJSON(list)

IsEnabled(n) == n.enable # "false"

IsDisabled(n) == n.enable = "false"

PassesFilter(n) == PredicateCall(filter, n)

RECURSIVE IsSubsequence(_, _)
\* a is b with some elements left out, the rest in b's order
IsSubsequence(a, b) ==
  IF a = <<>> THEN TRUE
  ELSE IF b = <<>> THEN FALSE
  ELSE IF Head(a) = Head(b) THEN IsSubsequence(Tail(a), Tail(b))
  ELSE IsSubsequence(a, Tail(b))

\* C1: a node whose enable is false contributes nothing to any serializer's
\* output, whatever the filter argument: the serializer gives exactly what it
\* gives on the list with the disabled nodes taken out (the same lines, or the
\* same failure), and every line it writes is written for an enabled node.
C1_DisabledNeverSerialized ==
  out.op \in SerializerOps =>
    /\ out.res = Run(out.op, SelectSeq(nodeList, IsEnabled), filter)
    /\ out.res.status = "ok" =>
         \A i \in 1..Len(out.res.value) :
           \E j \in 1..Len(nodeList) :
             /\ IsEnabled(nodeList[j])
             /\ nodeList[j].nodeName = out.res.value[i].name

\* a serializer has written a line for the enabled node of a list that also
\* holds a disabled node the predicate accepts
C1_Witness ==
  /\ out.op = "getSurgeNodes"
  /\ out.res.status = "ok"
  /\ out.res.value # <<>>
  /\ filter.kind = "function"
  /\ \E j \in 1..Len(nodeList) :
       IsDisabled(nodeList[j]) /\ PassesFilter(nodeList[j])

\* C2: applyFilter with a predicate p returns the enabled nodes that satisfy
\* p, in their original order: input.filter(enabled).filter(p), a subsequence
\* of the input (no element more often than the input holds it).
C2_PredicateFilter ==
  (out.op = "applyFilter" /\ filter.kind = "function") =>
    /\ out.res = Ok(SelectSeq(SelectSeq(nodeList, IsEnabled), PassesFilter))
    /\ IsSubsequence(out.res.value, nodeList)

\* applyFilter has kept one of two equally named nodes and dropped a disabled
\* one the predicate accepts
C2_Witness ==
  /\ out.op = "applyFilter"
  /\ filter.kind = "function"
  /\ Len(nodeList) = 2
  /\ Len(out.res.value) = 1
  /\ IsDisabled(nodeList[1])
  /\ PassesFilter(nodeList[1])
  /\ nodeList[1].nodeName = nodeList[2].nodeName

\* C3: applyFilter rejects a null or otherwise invalid filter (neither a
\* function nor an object exposing a filter operation) with a fatal error; it
\* never returns the nodes as if no filter had been given.
C3_InvalidFilterRejected ==
  ( /\ out.op = "applyFilter"
    /\ filter.kind # "undefined"
    /\ filter.kind # "function"
    /\ ~(filter.kind = "object" /\ filter.hasFilter) )
  => out.res.status = "throw"

----------------------------------------------------------------------------
(* Claims about the variants a target cannot represent (SpecVariant) *)

\* the nodes a serializer's map callback is called with
Candidates ==
  IF out.op \in {"getShadowsocksNodes", "getShadowsocksrNodes",
                 "getV2rayNNodes", "getShadowsocksNodesJSON"}
  THEN SelectSeq(nodeList, IsEnabled)
  ELSE applyFilter(nodeList, filter).value

\* the node types a target has a form for
KnownTypes(op) ==
  CASE op \in {"getSurgeNodes"} ->
         {"shadowsocks", "https", "snell", "shadowsocksr", "vmess"}
    [] op \in {"getClashNodes"} -> {"shadowsocks", "vmess", "shadowsocksr", "snell"}
    [] op \in {"getQuantumultNodes", "getQuantumultXNodes"} ->
         {"shadowsocks", "vmess", "shadowsocksr", "https"}
    [] op \in {"getMellowNodes", "getV2rayNNodes"} -> {"vmess"}
    [] op \in {"getShadowsocksNodes", "getShadowsocksNodesJSON"} -> {"shadowsocks"}
    [] op \in {"getShadowsocksrNodes"} -> {"shadowsocksr"}

IsRepresentable(n) ==
  /\ n.type \in KnownTypes(out.op)
  /\ ~(out.op = "getSurgeNodes" /\ n.type = "shadowsocks" /\ n.obfs \in {"ws", "wss"})

\* a node of the external form whose binary path is absent or empty
LacksBinPath(n) ==
  /\ n.binPath \in {"undefined", ""}
  /\ \/ n.type = "shadowsocksr"
     \/ n.type = "vmess" /\ n.surgeConfig # "native"

NoneLacksBinPath ==
  out.op = "getSurgeNodes" => \A i \in 1..Len(Candidates) : ~LacksBinPath(Candidates[i])

NamesWritten == [i \in 1..Len(out.res.value) |-> out.res.value[i].name]

\* C13: a node whose variant a target cannot represent (Shadowsocks with obfs
\* ws or wss in Surge, a non-VMess node in Mellow, an unknown type anywhere)
\* is dropped without raising: the call returns, and its output is the
\* entries of the other candidate nodes, one each, in their filtered order.
C13_UnsupportedVariantDropped ==
  (out.op \in SerializerOps /\ NoneLacksBinPath) =>
    /\ out.res.status = "ok"
    /\ NamesWritten = NamesOf(SelectSeq(Candidates, IsRepresentable))

\* Surge has written the line of one of two candidates, the other being a
\* Shadowsocks node with a v2ray-plugin obfs or a node of an unknown type
C13_Witness ==
  /\ out.op = "getSurgeNodes"
  /\ out.res.status = "ok"
  /\ Len(Candidates) = 2
  /\ Len(out.res.value) = 1
  /\ Candidates[1].type = "shadowsocks"
  /\ Candidates[1].obfs = "ws"
  /\ Candidates[1].nodeName # Candidates[2].nodeName

\* C14: in the Surge serializer a candidate ShadowsocksR node, or VMess node
\* of the external form, with an absent or empty binPath fails the whole call:
\* nothing is returned, not even for the nodes before it; a ShadowsocksR node
\* with a binPath is written in the external form.
C14_MissingBinPathFatal ==
  out.op = "getSurgeNodes" =>
    /\ ~NoneLacksBinPath => out.res.status = "throw"
    /\ out.res.status = "ok" =>
         LET written == SelectSeq(Candidates, IsRepresentable)
         IN  /\ Len(written) = Len(out.res.value)
             /\ \A i \in 1..Len(written) :
                  written[i].type = "shadowsocksr" =>
                    out.res.value[i] = Line("external", written[i].nodeName)

\* Surge failed on a list whose second candidate is a ShadowsocksR node with
\* no binPath, the first being a node it has a line for
C14_Witness ==
  /\ out.op = "getSurgeNodes"
  /\ out.res.status = "throw"
  /\ Len(Candidates) = 2
  /\ Candidates[1].type = "https"
  /\ Candidates[2].type = "shadowsocksr"
  /\ LacksBinPath(Candidates[2])

----------------------------------------------------------------------------
(* Claims about the proxy groups (SpecGroup) *)

GroupOps == {"generateClashProxyGroup", "normalizeClashProxyGroupConfig"}

\* the groups a successful call has built
BuiltGroups ==
  IF out.op = "generateClashProxyGroup" THEN <<out.res.value>> ELSE out.res.value

\* the existingProxies and the filter group i was built from
GivenProxies(i) ==
  IF out.op = "generateClashProxyGroup"
  THEN (IF out.options.given THEN out.options.existingProxies ELSE NoArray)
  ELSE out.proxyGroup[i].proxies

GivenFilter(i) ==
  IF out.op = "generateClashProxyGroup"
  THEN (IF out.options.given THEN out.options.filter ELSE Undefined)
  ELSE (IF out.proxyGroup[i].hasFilter THEN out.proxyGroup[i].filter ELSE Undefined)

CandidateNames(f) == NamesOf(applyFilter(nodeList, f).value)

\* C6: the member list of a group is resolved by exactly one of three
\* branches: existingProxies and a filter given: existingProxies followed by
\* the names of the filtered candidates; existingProxies alone given:
\* existingProxies and no candidate; no existingProxies: the names of the
\* filtered candidates alone.
C6_ThreeBranches ==
  (out.op \in GroupOps /\ out.res.status = "ok") =>
    \A i \in 1..Len(BuiltGroups) :
      LET existing == GivenProxies(i)
          f        == GivenFilter(i)
          proxies  == BuiltGroups[i].proxies
      IN  /\ (existing.defined /\ Truthy(f)) =>
                proxies = existing.list \o CandidateNames(f)
          /\ (existing.defined /\ ~Truthy(f)) => proxies = existing.list
          /\ ~existing.defined => proxies = CandidateNames(f)

\* a group built from existing members and a predicate holds the existing
\* members, then a candidate; the list also held a candidate the filter drops
C6_Witness ==
  /\ out.op = "generateClashProxyGroup"
  /\ out.res.status = "ok"
  /\ out.options.given
  /\ out.options.filter.kind = "function"
  /\ out.options.existingProxies = Array(<<"DIRECT", "A">>)
  /\ Len(nodeList) = 2
  /\ Len(out.res.value.proxies) = 3

HasValue(group, key) == key \in DOMAIN group /\ group[key] # "undefined"

\* C7: a built group carries a health-check url and interval if and only if
\* its type is url-test, fallback or load-balance: a select group has neither
\* key, every other group has a url and an interval value.
C7_HealthCheckIffNotSelect ==
  (out.op \in GroupOps /\ out.res.status = "ok") =>
    \A i \in 1..Len(BuiltGroups) :
      LET group == BuiltGroups[i]
      IN  /\ group.type = "select" =>
                "url" \notin DOMAIN group /\ "interval" \notin DOMAIN group
          /\ group.type \in HealthCheckTypes =>
                HasValue(group, "url") /\ HasValue(group, "interval")

----------------------------------------------------------------------------
(* Claims about the cache and the decode calls *)

CallIds == DOMAIN calls

\* the calls for key that have called got.get
Fetchers(key) == { c \in CallIds : calls[c].key = key /\ calls[c].fetched }

FetchFailed(c) == calls[c].pc = "done" /\ calls[c].result = Throw("FetchError")

\* the calls for key that hold a response body
Holders(key) ==
  { c \in CallIds : /\ calls[c].key = key
                    /\ calls[c].pc \in {"fetched", "done"}
                    /\ ~FetchFailed(c) }

C4_Step(c) ==
  LET before == calls[c]
      after  == calls'[c]
  IN  /\ (before.pc = "idle" /\ after.pc # "idle") =>
           IF cache[after.key].present
           THEN /\ ~after.fetched
                /\ after.pc = "done"
                /\ after.response = cache[after.key].body
           ELSE after.fetched /\ after.pc = "fetching"
      /\ after.fetched # before.fetched => before.pc = "idle"
      /\ (before.pc = "fetching" /\ after.pc = "fetched") =>
           cache'[before.key] = [present |-> TRUE, body |-> after.response]
      /\ (before.pc = "fetching" /\ after.pc = "done") =>
           after.result = Throw("FetchError")

\* C4: for every decoder and key, a decode call consults the cache before any
\* fetch: with an entry for the key it fetches nothing and decodes the entry;
\* without one it fetches, and when the fetch succeeds the fetched body is
\* stored under the key before the call goes on to parse it (a call leaves
\* its fetch either with the body stored or with the fetch error).
C4_CacheBeforeFetch == [][\A c \in CallIds : C4_Step(c)]_vars

\* two calls of different decoders for one key are done: the first fetched,
\* the second decoded the stored body without a fetch
C4_Witness ==
  \E c, d \in CallIds :
    /\ calls[c].pc = "done" /\ calls[d].pc = "done"
    /\ calls[c].key = calls[d].key
    /\ calls[c].decoder # calls[d].decoder
    /\ calls[c].fetched /\ ~calls[d].fetched
    /\ calls[c].result.status = "ok"
    /\ calls[d].response = calls[c].response

SameBody(key) ==
  \A c, d \in Holders(key) : calls[c].response = calls[d].response

\* C5 as claimed: within a run with no expiry the network is fetched at most
\* once for a key, however the calls interleave, so all decode the same body.
C5_SingleFetchPerKey ==
  \A key \in Keys : Cardinality(Fetchers(key)) <= 1 /\ SameBody(key)

C5_Step(c) ==
  (calls[c].pc = "idle" /\ calls'[c].fetched) =>
    LET key == calls'[c].key
    IN  \/ Fetchers(key) = {}
        \/ \E d \in CallIds \ {c} :
             /\ calls[d].key = key
             /\ calls[d].pc = "fetching" \/ FetchFailed(d)

\* C5 amended: within a run with no expiry a key is fetched a second time
\* only by a call that starts while another fetch of the key is in flight, or
\* after a fetch of the key has failed; and the calls for a key that was
\* fetched at most once all decode the same body.
C5_RefetchOnlyOnOverlapOrFailure ==
  [][ /\ \A c \in CallIds : C5_Step(c)
      /\ \A key \in Keys : (Cardinality(Fetchers(key)) <= 1)' => SameBody(key)'
    ]_vars

\* two calls for one key, made one after the other, are done: one fetch, one body
C5_Witness ==
  \E c, d \in CallIds :
    /\ c # d
    /\ calls[c].pc = "done" /\ calls[d].pc = "done"
    /\ calls[c].key = calls[d].key
    /\ calls[c].result.status = "ok" /\ calls[d].result.status = "ok"
    /\ Cardinality(Fetchers(calls[c].key)) = 1
    /\ calls[c].response = calls[d].response
    /\ calls[c].response # NoBody

----------------------------------------------------------------------------
(* Claims about getV2rayNSubscription (SpecDecode) *)

\* the V2RayN decode calls that got a response and are done with it
DecodedV2rayN ==
  { c \in CallIds : /\ calls[c].pc = "done"
                    /\ calls[c].decoder = "getV2rayNSubscription"
                    /\ ~FetchFailed(c) }

VmessLinesOf(c) == SelectSeq(calls[c].response.lines, IsVmessLine)

IsJsonLine(line) == line.json = "ok"

HasVersion2(line) == line.json = "ok" /\ line.v = "2"

HasOtherVersion(line) == line.json = "ok" /\ line.v # "2"

IsDroppedNetwork(line) == line.net \in {"kcp", "http"}

IsKeptNetwork(line) == line.net \notin {"kcp", "http"}

AllJson(lines) == \A i \in 1..Len(lines) : IsJsonLine(lines[i])

AllVersion2(lines) == \A i \in 1..Len(lines) : HasVersion2(lines[i])

AnyVersion2(lines) == \E i \in 1..Len(lines) : HasVersion2(lines[i])

AnyOtherVersion(lines) == \E i \in 1..Len(lines) : HasOtherVersion(lines[i])

NodesOf(lines) == [i \in 1..Len(lines) |-> VmessNode(lines[i])]

Returned(c, node) ==
  /\ calls[c].result.status = "ok"
  /\ \E i \in 1..Len(calls[c].result.value) : calls[c].result.value[i] = node

\* C8: a V2RayN decode whose payload holds a vmess line with a version that
\* is not 2 ("1", or none) fails as a whole and returns no nodes; a decode of
\* another source in the same run whose own payload is well formed still
\* returns its own nodes.
C8_VersionFailsOwnSourceOnly ==
  \A c \in DecodedV2rayN :
    /\ AnyOtherVersion(VmessLinesOf(c)) => calls[c].result.status = "throw"
    /\ (\E d \in DecodedV2rayN : d # c /\ calls[d].result.status = "throw"
          /\ calls[d].key # calls[c].key) =>
         (AllVersion2(VmessLinesOf(c)) =>
            /\ calls[c].result.status = "ok"
            /\ Len(calls[c].result.value)
                 = Len(SelectSeq(VmessLinesOf(c), IsKeptNetwork)))

\* one source failed on a version that is not 2; its sibling returned a node
C8_Witness ==
  \E c, d \in DecodedV2rayN :
    /\ calls[c].key # calls[d].key
    /\ AllJson(VmessLinesOf(c))
    /\ AnyOtherVersion(VmessLinesOf(c))
    /\ AnyVersion2(VmessLinesOf(c))
    /\ calls[c].result.status = "throw"
    /\ calls[d].result.status = "ok"
    /\ calls[d].result.value # <<>>

\* C9: in a V2RayN decode that returns, the vmess lines whose network is kcp
\* or http are dropped: the output is the nodes of the other vmess lines in
\* line order, shorter than the vmess lines by the number of kcp/http lines.
C9_UnsupportedNetworkDropped ==
  \A c \in DecodedV2rayN :
    calls[c].result.status = "ok" =>
      /\ calls[c].result.value = NodesOf(SelectSeq(VmessLinesOf(c), IsKeptNetwork))
      /\ Len(calls[c].result.value)
           = Len(VmessLinesOf(c)) - Len(SelectSeq(VmessLinesOf(c), IsDroppedNetwork))

\* a payload of three vmess lines, a kcp line between two others, gave the
\* two other nodes
C9_Witness ==
  \E c \in DecodedV2rayN :
    /\ calls[c].result.status = "ok"
    /\ Len(VmessLinesOf(c)) = 3
    /\ VmessLinesOf(c)[2].net = "kcp"
    /\ Len(calls[c].result.value) = 2
    /\ calls[c].result.value[1] # calls[c].result.value[2]

IsWellFormed(line) == HasVersion2(line) /\ IsKeptNetwork(line)

\* C10 as claimed: one malformed line never invalidates the rest of the
\* batch: the node of every well-formed line of the payload is returned.
C10_MalformedLineNeverInvalidates ==
  \A c \in DecodedV2rayN :
    \A i \in 1..Len(VmessLinesOf(c)) :
      IsWellFormed(VmessLinesOf(c)[i]) => Returned(c, VmessNode(VmessLinesOf(c)[i]))

\* C10 amended: a vmess line with an unsupported network (kcp, http) never
\* invalidates the rest of the batch: when every vmess line of the payload
\* is JSON with version 2 the call returns, with the node of every line of a
\* supported network; a vmess line that is not JSON or whose version is not 2
\* fails the whole call.
C10_OnlyUnsupportedNetworkIsPartial ==
  \A c \in DecodedV2rayN :
    IF AllVersion2(VmessLinesOf(c))
    THEN /\ calls[c].result.status = "ok"
         /\ \A i \in 1..Len(VmessLinesOf(c)) :
              IsWellFormed(VmessLinesOf(c)[i]) =>
                Returned(c, VmessNode(VmessLinesOf(c)[i]))
    ELSE calls[c].result.status = "throw"

\* a payload with an http line first and a well-formed line after it gave
\* the node of the well-formed line
C10_Witness ==
  \E c \in DecodedV2rayN :
    /\ Len(VmessLinesOf(c)) >= 2
    /\ VmessLinesOf(c)[1].net = "http"
    /\ IsWellFormed(VmessLinesOf(c)[2])
    /\ Returned(c, VmessNode(VmessLinesOf(c)[2]))

----------------------------------------------------------------------------
(* Claims about the SIP002 round trip (SpecRoundTrip) *)

\* method, password, hostname, port (as text) and node name agree
SameSsFields(a, b) ==
  /\ a.method = b.method
  /\ a.password = b.password
  /\ a.hostname = b.hostname
  /\ a.port = b.port
  /\ a.nodeName = b.nodeName

\* the positions of calls holding a node: the given one and the decoded ones
NodeSteps == { i \in 1..Len(calls) : calls[i].op # "getShadowsocksNodes" }

\* C11: SIP002 round trip: a Shadowsocks node encoded by getShadowsocksNodes
\* and decoded by getShadowsocksSubscription, and a decoded node encoded and
\* decoded again, has the method, password, hostname, port and node name of
\* the node it came from.
C11_Sip002RoundTrip ==
  \A i, j \in NodeSteps : j = i + 2 => SameSsFields(calls[i].node, calls[j].node)

----------------------------------------------------------------------------
(* Claims about the fields a serializer writes (SpecFields) *)

\* the node that was serialized, and the entries written for it
Config == nodeList[1]

Written == out.op # "none" /\ out.res.status = "ok"

HasKey(key) == \E i \in 1..Len(out.res.value) : out.res.value[i].key = key

ValueOf(key) ==
  LET i == CHOOSE i \in 1..Len(out.res.value) : out.res.value[i].key = key
  IN  out.res.value[i].value

\* the Quantumult X VMess udp-relay default
IsDocumentedDefault == out.op = "getQuantumultXNodes" /\ Config.type = "vmess"

\* C12: in every serializer an optional boolean field that is undefined is
\* unspecified: its flag is in the output only when the node carries a value
\* for it, never with a default (but for the Quantumult X VMess udp-relay).
C12_UndefinedFlagNotEmitted ==
  Written =>
    /\ (Config.udpRelay = "undefined" /\ Config.udp = "undefined"
          /\ ~IsDocumentedDefault)
         => (~HasKey("udp-relay") /\ ~HasKey("udp"))
    /\ Config.tfo = "undefined" => (~HasKey("tfo") /\ ~HasKey("fast-open"))
    /\ Config.mptcp = "undefined" => ~HasKey("mptcp")
    /\ Config.tls13 = "undefined" => ~HasKey("tls13")
    /\ Config.skipCertVerify = "undefined"
         => (~HasKey("skip-cert-verify") /\ ~HasKey("plugin-opts.skip-cert-verify"))

\* C15: Clash serialization of a Shadowsocks node: obfs http or tls gives
\* plugin obfs with mode equal to the obfs value; obfs ws or wss gives plugin
\* v2ray-plugin whose plugin-opts.tls is true if and only if obfs is wss; a
\* node with no obfs has no plugin and no plugin-opts.
C15_ClashShadowsocksPlugin ==
  (out.op = "getClashNodes" /\ Config.type = "shadowsocks") =>
    /\ Written
    /\ Config.obfs \in {"http", "tls"} =>
         /\ HasKey("plugin") /\ ValueOf("plugin") = "obfs"
         /\ HasKey("plugin-opts.mode") /\ ValueOf("plugin-opts.mode") = Config.obfs
         /\ ~HasKey("plugin-opts.tls")
    /\ Config.obfs \in {"ws", "wss"} =>
         /\ HasKey("plugin") /\ ValueOf("plugin") = "v2ray-plugin"
         /\ HasKey("plugin-opts.tls")
         /\ ValueOf("plugin-opts.tls") = (IF Config.obfs = "wss" THEN "true" ELSE "false")
    /\ Config.obfs = "undefined" =>
         \A i \in 1..Len(out.res.value) :
           out.res.value[i].key \notin
             {"plugin", "plugin-opts.mode", "plugin-opts.tls",
              "plugin-opts.skip-cert-verify", "plugin-opts.mux"}
    /\ \A i, j \in 1..Len(out.res.value) :
         out.res.value[i].key = out.res.value[j].key => i = j

\* Clash has written a Shadowsocks node with obfs ws: v2ray-plugin, tls false
C15_Witness ==
  /\ out.op = "getClashNodes"
  /\ Config.type = "shadowsocks"
  /\ Config.obfs = "ws"
  /\ Written
  /\ ValueOf("plugin-opts.tls") = "false"

\* C16: Quantumult and Quantumult X serialization of a VMess node whose
\* method is auto never writes auto: the line has no value auto and has the
\* method chacha20-ietf-poly1305; another method is written as given.
C16_VmessAutoMethodReplaced ==
  (out.op \in {"getQuantumultNodes", "getQuantumultXNodes"} /\ Config.type = "vmess") =>
    /\ Written
    /\ HasKey("method")
    /\ Config.method = "auto" =>
         /\ ValueOf("method") = "chacha20-ietf-poly1305"
         /\ \A i \in 1..Len(out.res.value) : out.res.value[i].value # "auto"
    /\ Config.method # "auto" => ValueOf("method") = Config.method

\* Quantumult has written a VMess node whose method is auto
C16_Witness ==
  /\ out.op = "getQuantumultNodes"
  /\ Config.type = "vmess"
  /\ Config.method = "auto"
  /\ Written
  /\ ValueOf("method") = "chacha20-ietf-poly1305"

\* C17: in the Quantumult X serializer udp-relay defaults to true only for
\* VMess: a VMess node with no udp value is written with udp-relay=true, a
\* Shadowsocks or ShadowsocksR node with no udp-relay value is written with
\* no udp-relay key.
C17_UdpRelayDefaultVmessOnly ==
  out.op = "getQuantumultXNodes" =>
    /\ (Config.type = "vmess" /\ Config.udp = "undefined") =>
         /\ Written
         /\ HasKey("udp-relay")
         /\ ValueOf("udp-relay") = "true"
    /\ (Config.type \in {"shadowsocks", "shadowsocksr"}
          /\ Config.udpRelay = "undefined") =>
         /\ Written
         /\ ~HasKey("udp-relay")

\* Quantumult X has written a VMess node that has no udp value
C17_Witness ==
  /\ out.op = "getQuantumultXNodes"
  /\ Config.type = "vmess"
  /\ Config.udp = "undefined"
  /\ Written
  /\ HasKey("udp-relay")

\* C24: the Quantumult X serializer writes udp-relay=true for every VMess
\* node, whatever the node's udp value, false included; no VMess line has
\* udp-relay=false.
C24_VmessUdpRelayAlwaysTrue ==
  (out.op = "getQuantumultXNodes" /\ Config.type = "vmess") =>
    /\ Written
    /\ \E i \in 1..Len(out.res.value) : out.res.value[i] = Entry("udp-relay", "true")
    /\ \A i \in 1..Len(out.res.value) :
         out.res.value[i].key = "udp-relay" => out.res.value[i].value = "true"

\* Quantumult X has written a VMess node whose udp is false
C24_Witness ==
  /\ out.op = "getQuantumultXNodes"
  /\ Config.type = "vmess"
  /\ Config.udp = "false"
  /\ Written
  /\ ValueOf("udp-relay") = "true"

----------------------------------------------------------------------------
(* Claims about the template filters (SpecTemplate) *)

UnsupportedRules ==
  IF out.op = "clash" THEN CLASH_UNSUPPORTED_RULE ELSE MELLOW_UNSUPPORTED_RULE

\* the line's uppercased content starts with no unsupported rule type
Survives(item) ==
  \A rule \in UnsupportedRules : ~(item # <<>> /\ UpperPiece(Head(item)) = rule)

IsBlankLine(item) == \A i \in 1..Len(item) : item[i] = " "

IsCommentLine(item) == item # <<>> /\ Head(item) = "#"

Holds(item, piece) == \E i \in 1..Len(item) : item[i] = piece

\* C18: under the Clash and the Mellow rule filter every line whose
\* uppercased content starts with an unsupported rule type of the target is
\* dropped, and every blank line (empty or whitespace only) and every comment
\* line (starting with #) is in the output unchanged, at its place among the
\* surviving lines.
C18_DropUnsupportedKeepBlankAndComment ==
  out.op \in {"clash", "mellow"} =>
    LET survivors == SelectSeq(nodeList, Survives)
    IN  IF survivors = <<>> THEN out.res.value = << <<>> >>
        ELSE /\ Len(out.res.value) = Len(survivors)
             /\ \A i \in 1..Len(survivors) :
                  (IsBlankLine(survivors[i]) \/ IsCommentLine(survivors[i]))
                    => out.res.value[i] = survivors[i]

IsNot(piece) == piece # ",no-resolve"

\* C19: under the Clash rule filter every surviving line that is neither a
\* comment nor blank is emitted with the prefix '- ', without ',no-resolve'
\* and without its '//' comment, its content otherwise as it was; no emitted
\* rule line holds ',no-resolve'.
C19_ClashRuleLine ==
  out.op = "clash" =>
    LET survivors == SelectSeq(nodeList, Survives)
    IN  \A i \in 1..Len(survivors) :
          (~IsBlankLine(survivors[i]) /\ ~IsCommentLine(survivors[i])) =>
            /\ startsWith(out.res.value[i], "- ")
            /\ ~Holds(out.res.value[i], ",no-resolve")
            /\ ~Holds(out.res.value[i], "//")
            /\ out.res.value[i] =
                 trim(<<"- ">> \o SelectSeq(RemoveComment(survivors[i]), IsNot))

\* the line handed to the conversion, its tokens, and its attribute text
ScriptLine == nodeList[1]

Tokens == Split(ScriptLine, " ")

NotSpace(piece) == piece # " "

Attributes ==
  LET spaces == { i \in 1..Len(ScriptLine) : ScriptLine[i] = " " }
      second == { i \in spaces : Cardinality({ j \in spaces : j < i }) = 1 }
  IN  IF second = {} THEN <<>>
      ELSE LET at == CHOOSE i \in second : TRUE
           IN  SelectSeq(SubSeq(ScriptLine, at + 1, Len(ScriptLine)), NotSpace)

\* what the script-path attribute reads as: the text after the last
\* `script-path=` up to the next "=" or ","
ScriptPath ==
  LET a == Attributes
      keys == { i \in 1..Len(a) : a[i] = "script-path" /\ (i = 1 \/ a[i - 1] = ",") }
  IN  IF keys = {} THEN <<"undefined">>
      ELSE LET key == CHOOSE i \in keys : \A j \in keys : j <= i
               after == SubSeq(a, key + 2, Len(a))
               text == SubSeq(after, 1, FirstOf(after, {"=", ","}) - 1)
           IN  IF key < Len(a) /\ a[key + 1] = "=" /\ text # <<>>
               THEN text ELSE <<"true">>

IsNotUrlPair(pair) == pair[1] # "url"

IsUrlPair(pair) == pair[1] = "url"

\* url is publicUrl with the path /qx-script and the one parameter url = value
IsCallbackUrl(url, value) ==
  /\ url.origin = cache.origin
  /\ url.pathname = "/qx-script"
  /\ SelectSeq(url.search, IsUrlPair) = << <<"url", value>> >>
  /\ SelectSeq(url.search, IsNotUrlPair) = SelectSeq(cache.search, IsNotUrlPair)

Converted == out.op = "convertSurgeScriptRuleToQuantumultXRewriteRule"

\* C20 as claimed: a line of the form '<pattern> http-response <attrs>'
\* becomes '<pattern> url script-response-body <callbackUrl>', callbackUrl
\* being the public URL with path /qx-script and parameter url = script-path.
C20_PatternThenType ==
  (Converted /\ Len(Tokens) >= 3 /\ Tokens[2] = <<"http-response">>
     /\ Tokens[1] # <<"http-response">>) =>
    /\ ~out.res.value.empty
    /\ out.res.value.pattern = Tokens[1]
    /\ IsCallbackUrl(out.res.value.url, ScriptPath)

\* C20 amended: a line of the form 'http-response <pattern> <attrs>'
\* becomes '<pattern> url script-response-body <callbackUrl>', callbackUrl
\* being the public URL with path /qx-script and parameter url set to what
\* the script-path attribute reads as (its text up to the next "=" or ",",
\* "undefined" when the line has none); a line whose first token is anything
\* else, '<pattern> http-response <attrs>' included, gives the empty string.
C20_TypeThenPattern ==
  Converted =>
    IF Tokens[1] = <<"http-response">>
    THEN /\ ~out.res.value.empty
         /\ out.res.value.pattern = (IF Len(Tokens) >= 2 THEN Tokens[2] ELSE <<>>)
         /\ IsCallbackUrl(out.res.value.url, ScriptPath)
    ELSE out.res.value = EmptyString

\* a line 'http-response ^a requires-body=1, script-path=a.js' was converted
\* for a public URL that already had a url parameter
C20_Witness ==
  /\ Converted
  /\ Tokens[1] = <<"http-response">>
  /\ Len(Tokens) = 4
  /\ ScriptPath = <<"a.js">>
  /\ cache.search # <<>>
  /\ ~out.res.value.empty
  /\ out.res.value.pattern = <<"^a">>

----------------------------------------------------------------------------
(* Claims about failed decode calls (SpecFailure) *)

FailureIds == 1..MaxDecodes

\* call c fetched a body for its key and then failed to decode it
FailedToDecode(c) ==
  /\ calls[c].pc = "done"
  /\ calls[c].fetched
  /\ calls[c].result = Throw("ParseError")

\* call c starts in this step, as decoder d for key k
Starts(c, d, k) ==
  /\ calls[c].pc = "idle"
  /\ calls'[c].pc # "idle"
  /\ calls'[c].decoder = d
  /\ calls'[c].key = k

\* C21 as claimed: once a call has fetched a body for key k and failed to
\* decode it, every decode call of that decoder for k that starts later
\* (no entry expires in this run) fails the same way and fetches nothing.
C21_FailureSticks ==
  [][ \A c0, c \in FailureIds :
        (FailedToDecode(c0) /\ Starts(c, calls[c0].decoder, calls[c0].key)) =>
          /\ ~calls'[c].fetched
          /\ calls'[c].result = calls[c0].result ]_vars

\* C21 amended: the body of a call that fails to decode is in the cache from
\* the step its fetch resolved, and while the entry of k is that body every
\* decode call of that decoder for k that starts fails the same way and
\* fetches nothing; the entry, and with it the failure, goes only when
\* another fetch of k, in flight when it was stored, resolves and replaces it.
C21_FailureSticksWhileEntryStays ==
  [][ /\ \A c \in FailureIds :
           (calls[c].pc = "fetching" /\ calls'[c].pc = "fetched") =>
             cache'[calls[c].key] = [present |-> TRUE, body |-> calls'[c].response]
      /\ \A c0, c \in FailureIds :
           ( /\ FailedToDecode(c0)
             /\ Starts(c, calls[c0].decoder, calls[c0].key)
             /\ cache[calls[c0].key] = [present |-> TRUE, body |-> calls[c0].response] ) =>
             /\ ~calls'[c].fetched
             /\ calls'[c].pc = "done"
             /\ calls'[c].result = calls[c0].result
      /\ \A k \in Keys :
           (cache[k].present /\ cache'[k] # cache[k]) =>
             \E c \in FailureIds :
               /\ calls[c].key = k
               /\ calls[c].pc = "fetching" /\ calls'[c].pc = "fetched"
               /\ cache'[k] = [present |-> TRUE, body |-> calls'[c].response]
    ]_vars

\* a call fetched a body and failed to decode it, and a later call of the
\* same decoder for the key failed the same way from the cache
C21_Witness ==
  \E c0, c \in FailureIds :
    /\ c0 < c
    /\ FailedToDecode(c0)
    /\ calls[c].pc = "done" /\ ~calls[c].fetched
    /\ calls[c].decoder = calls[c0].decoder /\ calls[c].key = calls[c0].key
    /\ calls[c].response = calls[c0].response
    /\ calls[c].result = Throw("ParseError")

\* call c0's fetch failed, and c is the first call for c0's key to start
\* after c0 did; it starts in this step, after the failure
NextAfterFailure(c0, c) ==
  /\ c0 < c
  /\ calls[c0].pc = "done"
  /\ calls[c0].result = Throw("FetchError")
  /\ Starts(c, calls'[c].decoder, calls[c0].key)
  /\ \A b \in FailureIds : (c0 < b /\ b < c) => calls[b].key # calls[c0].key

\* the step in which the fetch of a call fails
FetchFails(c) == calls[c].pc = "fetching" /\ calls'[c].pc = "done"

\* C22 as claimed: a call whose fetch fails ends with the fetch error and
\* leaves the cache as it was, and the next decode call for the same key
\* fetches afresh.
C22_FetchFailureThenFreshFetch ==
  [][ /\ \A c \in FailureIds :
           FetchFails(c) =>
             (calls'[c].result = Throw("FetchError") /\ cache' = cache)
      /\ \A c0, c \in FailureIds :
           NextAfterFailure(c0, c) => calls'[c].fetched
    ]_vars

\* C22 amended: a call whose fetch fails ends with the fetch error and
\* leaves the cache as it was, no entry created or changed; the next decode
\* call for the same key fetches afresh, unless another call, whose fetch of
\* the key was in flight alongside the failed one, has stored its body: then
\* it decodes that body from the cache.
C22_FetchFailureLeavesNoEntry ==
  [][ /\ \A c \in FailureIds :
           FetchFails(c) =>
             (calls'[c].result = Throw("FetchError") /\ cache' = cache)
      /\ \A c0, c \in FailureIds :
           NextAfterFailure(c0, c) =>
             \/ calls'[c].fetched /\ ~cache[calls[c0].key].present
             \/ /\ ~calls'[c].fetched
                /\ \E b \in FailureIds :
                     /\ b < c0
                     /\ calls[b].key = calls[c0].key
                     /\ calls[b].fetched
                     /\ calls[b].pc \in {"fetched", "done"}
                     /\ calls[b].result # Throw("FetchError")
                     /\ calls'[c].response = calls[b].response
    ]_vars

\* a fetch failed, the key has no entry, and the next call for the key is
\* at its own fetch
C22_Witness ==
  \E c0, c \in FailureIds :
    /\ c0 < c
    /\ calls[c0].pc = "done" /\ calls[c0].result = Throw("FetchError")
    /\ calls[c].key = calls[c0].key
    /\ calls[c].pc = "fetching" /\ calls[c].fetched
    /\ ~cache[calls[c0].key].present
    /\ \A b \in FailureIds : (c0 < b /\ b < c) => calls[b].key # calls[c0].key

----------------------------------------------------------------------------
(* Claims about cache hits and the udpRelay argument (SpecOverride) *)

\* call c starts in this step and finds an entry for its key
Hits(c) ==
  /\ calls[c].pc = "idle"
  /\ calls'[c].pc = "done"
  /\ ~calls'[c].fetched

\* call c0 fetched the body that is the entry of its key
Populated(c0) ==
  /\ calls[c0].fetched
  /\ calls[c0].pc \in {"fetched", "done"}
  /\ calls[c0].result # Throw("FetchError")
  /\ cache[calls[c0].key] = [present |-> TRUE, body |-> calls[c0].response]

\* the nodes of list, each with udp-relay as the argument override gives it
WithOverride(list, override) ==
  [i \in 1..Len(list) |->
     [list[i] EXCEPT !.udpRelay =
        IF override \in {"true", "false"} THEN override ELSE "undefined"]]

\* C23: a decode call that hits the cache leaves the entry as it was and
\* decodes it anew: it returns the nodes that the call of the same decoder
\* which populated the entry returned, in the same order, each with
\* udp-relay as its own udpRelay argument gives it (the argument when given,
\* absent when not), whatever the argument of the earlier call was.
C23_HitDecodesAfresh ==
  [][ \A c \in CallIds :
        Hits(c) =>
          /\ cache' = cache
          /\ calls'[c].response = cache[calls'[c].key].body
          /\ \A i \in 1..Len(calls'[c].result.value) :
               calls'[c].result.status = "ok" =>
                 calls'[c].result.value[i].udpRelay =
                   (IF calls'[c].udpRelay \in {"true", "false"}
                    THEN calls'[c].udpRelay ELSE "undefined")
          /\ \A c0 \in CallIds :
               ( /\ Populated(c0)
                 /\ calls[c0].pc = "done"
                 /\ calls[c0].key = calls'[c].key
                 /\ calls[c0].decoder = calls'[c].decoder ) =>
                 /\ calls'[c].result.status = calls[c0].result.status
                 /\ calls[c0].result.status = "ok" =>
                      calls'[c].result.value =
                        WithOverride(calls[c0].result.value, calls'[c].udpRelay)
    ]_vars

\* a call with udpRelay true populated the entry and a later call of the
\* decoder without the argument hit it: same nodes, no udp-relay
C23_Witness ==
  \E c0, c \in CallIds :
    /\ c0 < c
    /\ Populated(c0)
    /\ calls[c0].pc = "done" /\ calls[c].pc = "done"
    /\ ~calls[c].fetched
    /\ calls[c].key = calls[c0].key /\ calls[c].decoder = calls[c0].decoder
    /\ calls[c0].udpRelay = "true" /\ calls[c].udpRelay = "undefined"
    /\ calls[c0].result.status = "ok" /\ Len(calls[c0].result.value) = 2
    /\ calls[c0].result.value[1].udpRelay = "true"
    /\ calls[c].result.status = "ok" /\ Len(calls[c].result.value) = 2
    /\ calls[c].result.value[1].udpRelay = "undefined"
    /\ calls[c].result.value[1].nodeName = calls[c0].result.value[1].nodeName

====
